---- MODULE Spec2Model ----
(***************************************************************************)
(* Model of the desktop utility of src/gui.py: the global keystroke        *)
(* trigger engine (DesktopUtilitiesApp.on_key_press), the shortcut table   *)
(* and the model-configuration list it reads, and the GUI operations that  *)
(* edit them.                                                              *)
(*                                                                         *)
(* Text is a sequence of one-character strings: "brb" is <<"b","r","b">>.  *)
(***************************************************************************)
EXTENDS Integers, Sequences, FiniteSets, TLC

(* ---- bounds of the model ---------------------------------------------- *)

\* The code never caps the buffer; the model stops appending at MaxBuf.
MaxBuf == 4

\* The number of keys typed in the specification that records them.
MaxTyped == 4

\* The number of synthetic key presses waiting in the input stream.
MaxQueue == 6

\* The number of entry slots the shortcut table goes through during one run
\* of the loop over it.
MaxSlots == 4

(* ---- inputs ------------------------------------------------------------ *)

Digits == {"0", "1", "2", "3", "4", "5", "6", "7", "8", "9"}

DigitVal ==
    [d \in Digits |->
        CASE d = "0" -> 0 [] d = "1" -> 1 [] d = "2" -> 2 [] d = "3" -> 3
          [] d = "4" -> 4 [] d = "5" -> 5 [] d = "6" -> 6 [] d = "7" -> 7
          [] d = "8" -> 8 [] d = "9" -> 9]

DigitChar == <<"0", "1", "2", "3", "4", "5", "6", "7", "8", "9">>

\* the decimal digits of n >= 1
RECURSIVE DecimalDigits(_)
DecimalDigits(n) ==
    IF n < 10 THEN <<DigitChar[n + 1]>>
    ELSE Append(DecimalDigits(n \div 10), DigitChar[(n % 10) + 1])

\* key.char of a KeyCode that carries no character (pynput: char is None).
NoChar == "None"

\* The printable characters typed in the main specification.
PrintableChars == {"_", "0", "1", "2"}

\* pynput key objects: a KeyCode has a char attribute (a character or None),
\* a member of the Key enumeration has none.
KeyCode(c) == [cls |-> "KeyCode", val |-> c]

SpecialKey(n) == [cls |-> "Key", val |-> n]

SpecialNames == {"space", "backspace", "enter"}

Keys ==
    {KeyCode(c) : c \in PrintableChars \cup {NoChar}}
        \cup {SpecialKey(n) : n \in SpecialNames}

\* What the user can type into the trigger and output entries.
TriggerInputs == {<<>>, <<"1">>, <<"_", "_", "1">>, <<"1", " ">>}

OutputInputs == {<<>>, <<"x">>, <<"y">>}

\* The shortcuts the user creates in the main specification.
ShortcutInputs ==
    {[trigger |-> <<"1">>, output |-> <<"x">>],
     [trigger |-> <<"_", "_", "1">>, output |-> <<"y">>]}

ConfigNameInputs == {"", "c1", "c2"}

ApiKeyInputs == {"", "k"}

ModelInputs == {"Select a model", "m"}

(* ---- state ------------------------------------------------------------- *)

VARIABLES
    buffer,       \* self.buffer
    shortcuts,    \* self.shortcuts, in insertion order
    llm_configs,  \* self.llm_configs, in insertion order
    llm_list,     \* the rows of the configuration list; row i shows "Trigger: __i"
    listener,     \* "running", or the exception that ended the listener
    it,           \* the listener's position in the loop over self.shortcuts
    out,          \* synthetic events issued by the latest on_key_press call
    lastKey,      \* the key object of the latest on_key_press call
    dialog,       \* the latest message box shown by a GUI operation
    typed,        \* history: the key values delivered since start-up
    inputq,       \* synthetic key presses in the OS input stream, not yet
                  \* delivered to the listener
    tk_calls,     \* the tkinter calls the listener thread made in its
                  \* latest on_key_press call
    after_queue,  \* callbacks handed to root.after, not yet run
    windows,      \* every LLMQueryWindow object created so far
    open_query_windows, \* self.open_query_windows: config name -> window
    threads,      \* the running call_openrouter_api threads
    posts,        \* the bodies of the HTTP POSTs issued so far
    llm_profiles, \* self.llm_profiles: profile name -> settings
    saved_items,  \* self.saved_items
    files,        \* self.files
    models_data,  \* self.models_data, the fetched model list
    profile_form, \* the widgets of the profile editor
    config_file,  \* the contents of CONFIG_FILE on disk
    phase         \* where the process is: "init", "running" or "closed"

\* the state of the key listener and of the two tables it reads
keyvars ==
    <<buffer, shortcuts, llm_configs, llm_list, listener, it, out, lastKey, dialog,
      typed, inputq>>

\* the state of the windows, the profile editor and the configuration file
appvars ==
    <<tk_calls, after_queue, windows, open_query_windows, threads, posts,
      llm_profiles, saved_items, files, models_data, profile_form,
      config_file, phase>>

vars == <<keyvars, appvars>>

NoKey == [cls |-> "none", val |-> ""]

(* ---- text helpers ------------------------------------------------------ *)

\* s[:-1]
DropLast(s) == SubSeq(s, 1, Len(s) - 1)

\* str.endswith
endswith(s, t) ==
    /\ Len(t) <= Len(s)
    /\ SubSeq(s, Len(s) - Len(t) + 1, Len(s)) = t

\* int() of a string of decimal digits
RECURSIVE int(_)
int(ds) ==
    IF ds = <<>> THEN 0
    ELSE int(DropLast(ds)) * 10 + DigitVal[ds[Len(ds)]]

NoMatch == [start |-> 0, group0 |-> <<>>, group1 |-> <<>>]

\* The pattern __(\d+)$ matched with its first character at position i.
MatchesAt(s, i) ==
    /\ i + 2 <= Len(s)
    /\ s[i] = "_"
    /\ s[i + 1] = "_"
    /\ \A j \in (i + 2)..Len(s) : s[j] \in Digits

\* re.search(r'__(\d+)$', s): the leftmost position where the pattern matches.
re_search(s) ==
    LET starts == {i \in 1..Len(s) : MatchesAt(s, i)}
    IN  IF starts = {} THEN NoMatch
        ELSE LET i == CHOOSE x \in starts : \A y \in starts : x <= y
             IN  [start |-> i,
                  group0 |-> SubSeq(s, i, Len(s)),
                  group1 |-> SubSeq(s, i + 2, Len(s))]

(* ---- the keystroke injector -------------------------------------------- *)

Press(k) == [kind |-> "press", arg |-> k]

Release(k) == [kind |-> "release", arg |-> k]

After(name) == [kind |-> "after", arg |-> name]

\* for _ in range(n): press(backspace); release(backspace); sleep
RECURSIVE Erase(_)
Erase(n) ==
    IF n <= 0 THEN <<>>
    ELSE <<Press("backspace"), Release("backspace")>> \o Erase(n - 1)

\* keyboard_controller.type(text): each character pressed and released
RECURSIVE Type(_)
Type(text) ==
    IF text = <<>> THEN <<>>
    ELSE <<Press(text[1]), Release(text[1])>> \o Type(Tail(text))

(* ---- the shortcut table ------------------------------------------------ *)

Triggers(table) == {table[i].trigger : i \in 1..Len(table)}

Names(configs) == {configs[i].name : i \in 1..Len(configs)}

\* Mutant of Fires: the enabled flag is not consulted.
Fires_IgnoringEnabled(entry, buf) == endswith(buf, entry.trigger)

\* data["enabled"].get() and self.buffer.endswith(trigger)
Fires(entry, buf) == entry.enabled /\ endswith(buf, entry.trigger)

\* for trigger, data in self.shortcuts.items(): the index of the first entry
\* at or after i that is enabled and ends the buffer, 0 when the loop runs out.
RECURSIVE ScanShortcuts(_, _, _)
ScanShortcuts(table, buf, i) ==
    IF i > Len(table) THEN 0
    ELSE IF Fires(table[i], buf) THEN i
         ELSE ScanShortcuts(table, buf, i + 1)

(* ---- the listener callback --------------------------------------------- *)

\* The numeric alias step: the position of the configuration to open, or 0.
AliasPosition(buf) ==
    LET match == re_search(buf)
        number == int(match.group1)
    IN  IF match # NoMatch /\ 1 <= number /\ number <= Len(llm_configs)
        THEN number
        ELSE 0

\* The erase loop and root.after(0, self.show_query_window, config_to_open)
AliasAction(buf) ==
    LET trigger_len == Len(re_search(buf).group0)
        config_names == [i \in 1..Len(llm_configs) |-> llm_configs[i].name]
    IN  Erase(trigger_len) \o <<After(config_names[AliasPosition(buf)])>>

\* Mutant of ShortcutAction: the output is typed before the trigger is erased.
ShortcutAction_TypesFirst(entry) ==
    Type(entry.output) \o Erase(Len(entry.trigger))

\* The erase loop and keyboard_controller.type(data["output"])
ShortcutAction(entry) == Erase(Len(entry.trigger)) \o Type(entry.output)

\* Mutant of MatchAndAct: the shortcut loop runs before the alias step.
MatchAndAct_ShortcutsFirst(buf) ==
    LET i == ScanShortcuts(shortcuts, buf, 1)
    IN  IF i > 0
        THEN /\ out' = ShortcutAction(shortcuts[i])
             /\ buffer' = <<>>
        ELSE IF AliasPosition(buf) > 0
        THEN /\ out' = AliasAction(buf)
             /\ buffer' = <<>>
        ELSE /\ out' = <<>>
             /\ buffer' = buf

\* Mutant of MatchAndAct: the return of the alias step is taken whenever the
\* pattern matches, in range or not.
MatchAndAct_AliasAlwaysReturns(buf) ==
    IF AliasPosition(buf) > 0
    THEN /\ out' = AliasAction(buf)
         /\ buffer' = <<>>
    ELSE LET i == IF re_search(buf) # NoMatch THEN 0
                  ELSE ScanShortcuts(shortcuts, buf, 1)
         IN  IF i > 0
             THEN /\ out' = ShortcutAction(shortcuts[i])
                  /\ buffer' = <<>>
             ELSE /\ out' = <<>>
                  /\ buffer' = buf

\* The part of on_key_press after a character has been appended.
MatchAndAct(buf) ==
    IF AliasPosition(buf) > 0
    THEN /\ out' = AliasAction(buf)
         /\ buffer' = <<>>
    ELSE LET i == ScanShortcuts(shortcuts, buf, 1)
         IN  IF i > 0
             THEN /\ out' = ShortcutAction(shortcuts[i])
                  /\ buffer' = <<>>
             ELSE /\ out' = <<>>
                  /\ buffer' = buf

\* Mutant of SpecialKeyBranch: Backspace falls into the reset of the other keys.
SpecialKeyBranch_BackspaceResets(key) ==
    /\ buffer' = IF key.val = "space" THEN Append(buffer, " ") ELSE <<>>
    /\ out' = <<>>
    /\ UNCHANGED listener

\* The except AttributeError branch: a member of the Key enumeration.
SpecialKeyBranch(key) ==
    /\ buffer' = IF key.val = "space" THEN Append(buffer, " ")
                 ELSE IF key.val = "backspace" THEN DropLast(buffer)
                 ELSE <<>>
    /\ out' = <<>>
    /\ UNCHANGED listener

\* self.buffer += None raises TypeError, which the handler does not catch:
\* the exception ends the listener.
NoCharBranch ==
    /\ listener' = "TypeError"
    /\ out' = <<>>
    /\ UNCHANGED buffer

\* One call of the callback, run to its return.
on_key_press(key) ==
    /\ listener = "running"
    /\ lastKey' = key
    /\ IF key.cls = "Key" THEN SpecialKeyBranch(key)
       ELSE IF key.val = NoChar THEN NoCharBranch
       ELSE /\ MatchAndAct(Append(buffer, key.val))
            /\ UNCHANGED listener
    /\ UNCHANGED <<shortcuts, llm_configs, llm_list, dialog>>

(* ---- the callback in steps, as the GUI thread can interleave with it ---- *)

Dummy == <<"DUMMY">>

Idle == [pc |-> "idle", pos |-> 0, used |-> 0, len |-> 0, slots |-> <<>>]

\* iter(self.shortcuts.items()): the iterator remembers the size of the
\* mapping and walks its entry slots.
IterNew(table) ==
    [pc |-> "loop", pos |-> 1, used |-> Len(table), len |-> Len(table),
     slots |-> [i \in 1..Len(table) |-> table[i].trigger]]

\* What a running iterator sees of del self.shortcuts[trigger]: the slot of
\* the deleted key is emptied, the other slots keep their place.
IterSeesDelete(i, trigger) ==
    IF i.pc = "loop"
    THEN [i EXCEPT !.slots =
            [k \in 1..Len(i.slots) |->
                IF i.slots[k] = trigger THEN Dummy ELSE i.slots[k]]]
    ELSE i

\* What a running iterator sees of self.shortcuts[trigger] = ...: a new key
\* takes the slot after the last one.
IterSeesInsert(i, trigger) ==
    IF i.pc = "loop" THEN [i EXCEPT !.slots = Append(i.slots, trigger)] ELSE i

Entry(table, trigger) ==
    table[CHOOSE k \in 1..Len(table) : table[k].trigger = trigger]

\* on_key_press up to the start of the loop over self.shortcuts
on_key_press_begin(key) ==
    /\ listener = "running"
    /\ it.pc = "idle"
    /\ lastKey' = key
    /\ IF key.cls = "Key" THEN SpecialKeyBranch(key) /\ UNCHANGED it
       ELSE IF key.val = NoChar THEN NoCharBranch /\ UNCHANGED it
       ELSE LET buf == Append(buffer, key.val)
            IN  IF AliasPosition(buf) > 0
                THEN /\ out' = AliasAction(buf)
                     /\ buffer' = <<>>
                     /\ UNCHANGED <<listener, it>>
                ELSE /\ buffer' = buf
                     /\ out' = <<>>
                     /\ it' = IterNew(shortcuts)
                     /\ UNCHANGED listener
    /\ UNCHANGED <<shortcuts, llm_configs, llm_list, dialog>>

\* One turn of the loop: the iterator's next(), then the loop body.
on_key_press_loop ==
    /\ listener = "running"
    /\ it.pc = "loop"
    /\ LET live == {k \in it.pos..Len(it.slots) : it.slots[k] # Dummy}
       IN  IF it.used # Len(shortcuts)
           THEN \* RuntimeError: dictionary changed size during iteration
                /\ listener' = "RuntimeError"
                /\ it' = Idle
                /\ UNCHANGED <<buffer, out>>
           ELSE IF live = {}
           THEN \* StopIteration: the loop ends and the callback returns
                /\ it' = Idle
                /\ UNCHANGED <<buffer, out, listener>>
           ELSE IF it.len = 0
           THEN \* RuntimeError: dictionary keys changed during iteration
                /\ listener' = "RuntimeError"
                /\ it' = Idle
                /\ UNCHANGED <<buffer, out>>
           ELSE LET k == CHOOSE x \in live : \A y \in live : x <= y
                    entry == Entry(shortcuts, it.slots[k])
                IN  IF Fires(entry, buffer)
                    THEN /\ out' = ShortcutAction(entry)
                         /\ buffer' = <<>>
                         /\ it' = Idle
                         /\ UNCHANGED listener
                    ELSE /\ it' = [it EXCEPT !.pos = k + 1, !.len = @ - 1]
                         /\ UNCHANGED <<buffer, out, listener>>
    /\ UNCHANGED <<shortcuts, llm_configs, llm_list, dialog, lastKey>>

(* ---- GUI operations ---------------------------------------------------- *)

\* Mutant of add_shortcut: no duplicate check, the assignment replaces the
\* entry of a trigger that is already present.
add_shortcut_overwrites(trigger, output) ==
    /\ IF trigger = <<>> \/ output = <<>>
       THEN dialog' = "Input Error" /\ UNCHANGED shortcuts
       ELSE /\ shortcuts' =
                IF trigger \in Triggers(shortcuts)
                THEN [i \in 1..Len(shortcuts) |->
                        IF shortcuts[i].trigger = trigger
                        THEN [trigger |-> trigger, output |-> output,
                              enabled |-> TRUE]
                        ELSE shortcuts[i]]
                ELSE Append(shortcuts,
                        [trigger |-> trigger, output |-> output,
                         enabled |-> TRUE])
            /\ UNCHANGED dialog
    /\ UNCHANGED <<buffer, llm_configs, llm_list, listener, out, lastKey>>

add_shortcut(trigger, output) ==
    /\ IF trigger = <<>> \/ output = <<>>
       THEN dialog' = "Input Error" /\ UNCHANGED shortcuts
       ELSE IF trigger \in Triggers(shortcuts)
       THEN dialog' = "Duplicate Error" /\ UNCHANGED shortcuts
       ELSE /\ shortcuts' = Append(shortcuts,
                    [trigger |-> trigger, output |-> output, enabled |-> TRUE])
            /\ UNCHANGED dialog
    /\ UNCHANGED <<buffer, llm_configs, llm_list, listener, out, lastKey>>

delete_shortcut(trigger) ==
    /\ IF trigger \in Triggers(shortcuts)
       THEN LET keep(e) == e.trigger # trigger
            IN  shortcuts' = SelectSeq(shortcuts, keep)
       ELSE UNCHANGED shortcuts
    /\ UNCHANGED <<buffer, llm_configs, llm_list, listener, out, lastKey, dialog>>

\* The Checkbutton bound to data["enabled"]
toggle_shortcut(i) ==
    /\ i \in 1..Len(shortcuts)
    /\ shortcuts' = [shortcuts EXCEPT ![i].enabled = ~@]
    /\ UNCHANGED <<buffer, llm_configs, llm_list, listener, out, lastKey, dialog>>

\* update_llm_list_ui: the rows are rebuilt from self.llm_configs, in its
\* order; row i names its configuration and shows "Trigger: __" + str(i)
update_llm_list_ui(configs) == [i \in 1..Len(configs) |-> configs[i].name]

add_llm_config(name, api_key, model) ==
    /\ IF name = "" \/ api_key = "" \/ model = "" \/ model = "Select a model"
       THEN dialog' = "Input Error" /\ UNCHANGED <<llm_configs, llm_list>>
       ELSE IF name \in Names(llm_configs)
       THEN dialog' = "Duplicate Error" /\ UNCHANGED <<llm_configs, llm_list>>
       ELSE /\ llm_configs' = Append(llm_configs,
                    [name |-> name, api_key |-> api_key, model |-> model])
            /\ llm_list' = update_llm_list_ui(llm_configs')
            /\ UNCHANGED dialog
    /\ UNCHANGED <<buffer, shortcuts, listener, out, lastKey>>

\* Mutant of delete_llm_config: the rows of the list are not rebuilt.
delete_llm_config_KeepsRows(name) ==
    /\ IF name \in Names(llm_configs)
       THEN LET keep(e) == e.name # name
            IN  llm_configs' = SelectSeq(llm_configs, keep)
       ELSE UNCHANGED llm_configs
    /\ UNCHANGED llm_list
    /\ UNCHANGED <<buffer, shortcuts, listener, out, lastKey, dialog>>

delete_llm_config(name) ==
    /\ IF name \in Names(llm_configs)
       THEN LET keep(e) == e.name # name
            IN  /\ llm_configs' = SelectSeq(llm_configs, keep)
                /\ llm_list' = update_llm_list_ui(llm_configs')
       ELSE UNCHANGED <<llm_configs, llm_list>>
    /\ UNCHANGED <<buffer, shortcuts, listener, out, lastKey, dialog>>

(* ---- values of settings mappings -------------------------------------- *)

\* A Python or JSON value: its type t and its contents (n for a number, s for
\* a text or the items of a list, b for a boolean).  A float is held in
\* tenths: Float(7) is 0.7.
Val(t, n, s, b) == [t |-> t, n |-> n, s |-> s, b |-> b]

\* the key is not in the mapping
Absent == Val("absent", 0, <<>>, FALSE)

None == Val("None", 0, <<>>, FALSE)

Float(n) == Val("float", n, <<>>, FALSE)

Integer(n) == Val("int", n, <<>>, FALSE)

Str(s) == Val("str", 0, s, FALSE)

Bool(b) == Val("bool", 0, <<>>, b)

\* a JSON array, s naming its items
List(s) == Val("list", 0, s, FALSE)

\* a JSON object, s naming its keys
Dict(s) == Val("dict", 0, s, FALSE)

\* the outcome of a conversion that raised
ValueError == Val("ValueError", 0, <<>>, FALSE)

IsDigits(s) == s # <<>> /\ \A i \in 1..Len(s) : s[i] \in Digits

\* int(text) of an unsigned or signed decimal numeral
int_of_str(s) ==
    IF IsDigits(s) THEN Integer(int(s))
    ELSE IF s # <<>> /\ s[1] = "-" /\ IsDigits(Tail(s)) THEN Integer(0 - int(Tail(s)))
    ELSE ValueError

\* the tenths of an unsigned numeral d+ or d+.d
Tenths(s) ==
    IF IsDigits(s) THEN Integer(10 * int(s))
    ELSE IF /\ Len(s) >= 3
            /\ s[Len(s) - 1] = "."
            /\ s[Len(s)] \in Digits
            /\ IsDigits(SubSeq(s, 1, Len(s) - 2))
    THEN Integer(10 * int(SubSeq(s, 1, Len(s) - 2)) + DigitVal[s[Len(s)]])
    ELSE ValueError

\* float(text), for numerals with at most one decimal
float_of_str(s) ==
    LET neg == s # <<>> /\ s[1] = "-"
        u == Tenths(IF neg THEN Tail(s) ELSE s)
    IN  IF u = ValueError THEN ValueError
        ELSE Float(IF neg THEN 0 - u.n ELSE u.n)

\* str(value) of a number, a text or a boolean
str(v) ==
    CASE v.t = "int" ->
            IF v.n < 0 THEN <<"-">> \o DecimalDigits(0 - v.n)
            ELSE DecimalDigits(v.n)
      [] v.t = "float" ->
            LET a == IF v.n < 0 THEN 0 - v.n ELSE v.n
                digits == DecimalDigits(a \div 10) \o <<".", DigitChar[(a % 10) + 1]>>
            IN  IF v.n < 0 THEN <<"-">> \o digits ELSE digits
      [] v.t = "str" -> v.s
      [] v.t = "bool" ->
            IF v.b THEN <<"T", "r", "u", "e">> ELSE <<"F", "a", "l", "s", "e">>
      [] OTHER -> <<"[", "]">>

\* bool(value): Python truthiness
truthy(v) ==
    CASE v.t = "int" -> v.n # 0
      [] v.t = "float" -> v.n # 0
      [] v.t = "bool" -> v.b
      [] v.t \in {"str", "list", "dict"} -> v.s # <<>>
      [] OTHER -> FALSE

(* ---- the parameter schema (models.py) ---------------------------------- *)

low == <<"l", "o", "w">>

medium == <<"m", "e", "d", "i", "u", "m">>

high == <<"h", "i", "g", "h">>

\* VerbosityLevel and ReasoningLevel have the same three values
LevelValues == {low, medium, high}

\* One field of the schema: its type, its ge and le bounds (a set that is
\* empty when the field has no such bound) and its default.  Bounds of float
\* fields are in tenths, like the values.
Field(type, ge, le, default) ==
    [type |-> type, ge |-> ge, le |-> le, default |-> default]

OpenRouterAPIParameters ==
    [temperature         |-> Field("float", {0}, {20}, Float(10)),
     top_p               |-> Field("float", {0}, {10}, Float(10)),
     top_k               |-> Field("int", {0}, {}, Integer(0)),
     frequency_penalty   |-> Field("float", {0 - 20}, {20}, Float(0)),
     presence_penalty    |-> Field("float", {0 - 20}, {20}, Float(0)),
     repetition_penalty  |-> Field("float", {0}, {20}, Float(10)),
     min_p               |-> Field("float", {0}, {10}, Float(0)),
     top_a               |-> Field("float", {0}, {10}, Float(0)),
     seed                |-> Field("int", {}, {}, None),
     max_tokens          |-> Field("int", {1}, {}, None),
     logit_bias          |-> Field("dict", {}, {}, None),
     logprobs            |-> Field("bool", {}, {}, None),
     top_logprobs        |-> Field("int", {0}, {20}, None),
     response_format     |-> Field("dict", {}, {}, None),
     structured_outputs  |-> Field("bool", {}, {}, None),
     stop                |-> Field("list", {}, {}, None),
     tools               |-> Field("list", {}, {}, None),
     tool_choice         |-> Field("str_or_dict", {}, {}, None),
     parallel_tool_calls |-> Field("bool", {}, {}, Bool(TRUE)),
     verbosity           |-> Field("level", {}, {}, Str(medium)),
     reasoning           |-> Field("level", {}, {}, None)]

ParameterFields == DOMAIN OpenRouterAPIParameters

\* the keys a settings mapping can hold besides the schema's fields
ExtraKeys == {"model", "system_message", "include_reasoning"}

SettingsKeys == ParameterFields \cup ExtraKeys

\* the empty mapping {}
NoSettings == [k \in SettingsKeys |-> Absent]

\* the keys of a settings mapping
keys(settings) == {k \in DOMAIN settings : settings[k] # Absent}

\* the texts pydantic reads as a boolean
BoolTexts ==
    [true |-> {<<"1">>, <<"o", "n">>, <<"t">>, <<"t", "r", "u", "e">>,
               <<"y">>, <<"y", "e", "s">>},
     false |-> {<<"0">>, <<"o", "f", "f">>, <<"f">>, <<"f", "a", "l", "s", "e">>,
                <<"n">>, <<"n", "o">>}]

\* pydantic's conversion of an input to the type of a field
Coerce(type, v) ==
    CASE v.t = "None" -> None
      [] type = "float" ->
            CASE v.t = "float" -> v
              [] v.t = "int" -> Float(10 * v.n)
              [] v.t = "bool" -> Float(IF v.b THEN 10 ELSE 0)
              [] v.t = "str" -> float_of_str(v.s)
              [] OTHER -> ValueError
      [] type = "int" ->
            CASE v.t = "int" -> v
              [] v.t = "float" ->
                    IF v.n % 10 = 0 THEN Integer(v.n \div 10) ELSE ValueError
              [] v.t = "bool" -> Integer(IF v.b THEN 1 ELSE 0)
              [] v.t = "str" -> int_of_str(v.s)
              [] OTHER -> ValueError
      [] type = "bool" ->
            CASE v.t = "bool" -> v
              [] v.t = "int" /\ v.n \in {0, 1} -> Bool(v.n = 1)
              [] v.t = "float" /\ v.n \in {0, 10} -> Bool(v.n = 10)
              [] v.t = "str" /\ v.s \in BoolTexts.true -> Bool(TRUE)
              [] v.t = "str" /\ v.s \in BoolTexts.false -> Bool(FALSE)
              [] OTHER -> ValueError
      [] type = "level" ->
            IF v.t = "str" /\ v.s \in LevelValues THEN v ELSE ValueError
      [] type = "list" -> IF v.t = "list" THEN v ELSE ValueError
      [] type = "dict" -> IF v.t = "dict" THEN v ELSE ValueError
      [] type = "str_or_dict" ->
            IF v.t \in {"str", "dict"} THEN v ELSE ValueError
      [] OTHER -> ValueError

\* Mutant of ValidateField: the ge and le bounds are not applied.
ValidateField_NoBounds(name, v) ==
    Coerce(OpenRouterAPIParameters[name].type, v)

\* the validation of one supplied field: conversion, then the bounds
ValidateField(name, v) ==
    LET f == OpenRouterAPIParameters[name]
        c == Coerce(f.type, v)
    IN  IF c.t \in {"float", "int"}
           /\ ((\E g \in f.ge : c.n < g) \/ (\E l \in f.le : c.n > l))
        THEN ValueError
        ELSE c

\* OpenRouterAPIParameters(**settings): a supplied field is validated, a
\* field that is not supplied takes its default, other keys are ignored.
Parameters(settings) ==
    [name \in ParameterFields |->
        IF settings[name] = Absent
        THEN OpenRouterAPIParameters[name].default
        ELSE ValidateField(name, settings[name])]

\* the constructor raises a validation error
Raises(settings) ==
    \E name \in ParameterFields : Parameters(settings)[name] = ValueError

\* params.model_dump(exclude_none=True)
model_dump(params) ==
    [name \in ParameterFields |->
        IF params[name] = None THEN Absent ELSE params[name]]

(* ---- query windows (ui_windows.py) -------------------------------------- *)

\* the windows created so far
MaxWindows == 1

\* call_openrouter_api threads running at the same time
MaxThreads == 1

\* messages in the history of one window
MaxHistory == 2

\* One line of the chat display: a fixed text, or the content of a message.
Line(tag, text, content) == [tag |-> tag, text |-> text, content |-> content]

Message(role, content) == [role |-> role, content |-> content]

\* LLMQueryWindow.__init__
LLMQueryWindow(config_name, config_details) ==
    [config_name |-> config_name,
     config_details |-> config_details,
     advanced_settings |-> NoSettings,
     current_profile_name |-> "Default",
     history |-> <<>>,
     chat_display |-> <<>>,
     destroyed |-> FALSE]

\* what update_chat_display writes for one message of the history
RenderMessage(m) ==
    CASE m.role = "user" ->
            <<Line("user_role", "You: ", None), Line("", "", m.content)>>
      [] m.role = "assistant" ->
            <<Line("assistant_role", "Assistant: ", None), Line("", "", m.content)>>
      [] OTHER -> <<>>

RECURSIVE Render(_)
Render(history) ==
    IF history = <<>> THEN <<>>
    ELSE RenderMessage(Head(history)) \o Render(Tail(history))

\* update_chat_display: the display is rewritten from the history.  On a
\* destroyed window the widget call raises and nothing is written.
update_chat_display(w) ==
    IF w.destroyed THEN w ELSE [w EXCEPT !.chat_display = Render(w.history)]

append_to_chat_display(w, text, tag) ==
    IF w.destroyed THEN w
    ELSE [w EXCEPT !.chat_display = Append(@, Line(tag, text, None))]

\* the position of config_name in open_query_windows, 0 when it has none
Registered(config_name) ==
    LET at == {i \in 1..Len(open_query_windows) :
                    open_query_windows[i].name = config_name}
    IN  IF at = {} THEN 0 ELSE CHOOSE i \in at : TRUE

\* self.llm_configs.get(config_name), as a sequence of at most one entry
Details(config_name) ==
    LET is(e) == e.name = config_name IN SelectSeq(llm_configs, is)

\* Mutant of show_query_window: it does not look for an open window first.
show_query_window_AlwaysCreates(config_name) ==
    /\ IF Details(config_name) = <<>>
       THEN UNCHANGED <<windows, open_query_windows>>
       ELSE /\ windows' = Append(windows,
                    LLMQueryWindow(config_name,
                        [api_key |-> Details(config_name)[1].api_key,
                         model |-> Details(config_name)[1].model]))
            /\ open_query_windows' = Append(open_query_windows,
                    [name |-> config_name, window |-> Len(windows) + 1])

show_query_window(config_name) ==
    /\ IF Registered(config_name) > 0
       THEN UNCHANGED <<windows, open_query_windows>>          \* lift, focus
       ELSE IF Details(config_name) = <<>>
       THEN UNCHANGED <<windows, open_query_windows>>
       ELSE /\ windows' = Append(windows,
                    LLMQueryWindow(config_name,
                        [api_key |-> Details(config_name)[1].api_key,
                         model |-> Details(config_name)[1].model]))
            /\ open_query_windows' = Append(open_query_windows,
                    [name |-> config_name, window |-> Len(windows) + 1])

\* A destroyed window that no thread refers to any more is freed: what it held
\* is gone with it.
Collected(ws, ths) ==
    [id \in 1..Len(ws) |->
        IF ws[id].destroyed /\ \A t \in 1..Len(ths) : ths[t].window # id
        THEN [LLMQueryWindow(ws[id].config_name, ws[id].config_details)
                EXCEPT !.destroyed = TRUE]
        ELSE ws[id]]

\* on_close: unregister_query_window(self.config_name), then destroy
on_close(id) ==
    /\ ~windows[id].destroyed
    /\ LET keep(e) == e.name # windows[id].config_name
       IN  open_query_windows' = SelectSeq(open_query_windows, keep)
    /\ windows' = Collected([windows EXCEPT ![id].destroyed = TRUE], threads)

\* Mutant of start_new_conversation: it also empties the application's buffer.
start_new_conversation_ResetsBuffer(id) ==
    /\ ~windows[id].destroyed
    /\ windows' = [windows EXCEPT ![id] =
            append_to_chat_display(
                update_chat_display([@ EXCEPT !.history = <<>>]),
                "--- New conversation started ---", "system")]
    /\ buffer' = <<>>

start_new_conversation(id) ==
    /\ ~windows[id].destroyed
    /\ windows' = [windows EXCEPT ![id] =
            append_to_chat_display(
                update_chat_display([@ EXCEPT !.history = <<>>]),
                "--- New conversation started ---", "system")]
    /\ UNCHANGED buffer

apply_profile(id, profile_data, profile_name) ==
    /\ ~windows[id].destroyed
    /\ windows' = [windows EXCEPT ![id] =
            append_to_chat_display(
                [@ EXCEPT !.advanced_settings = profile_data,
                          !.current_profile_name = profile_name],
                "--- Applied settings profile ---", "system")]

\* send_query_threaded: prompt is the stripped text of the prompt entry
send_query_threaded(id, prompt) ==
    /\ ~windows[id].destroyed
    /\ IF prompt = <<>> /\ windows[id].history = <<>>
       THEN UNCHANGED <<windows, threads>>
       ELSE /\ windows' = [windows EXCEPT ![id] =
                    update_chat_display(
                        IF prompt = <<>> THEN @
                        ELSE [@ EXCEPT !.history =
                                Append(@, Message("user", Str(prompt)))])]
            /\ threads' = Append(threads,
                    [window |-> id, pc |-> "start", post |-> 0])

(* ---- the chat request (api.py, LLMQueryWindow.call_openrouter_api) ------ *)

\* messages = history.copy(), with the system message put in front of the copy
Messages(history, advanced_settings) ==
    IF truthy(advanced_settings["system_message"])
    THEN <<Message("system", advanced_settings["system_message"])>> \o history
    ELSE history

\* payload = {"model": ..., "messages": ...}, updated with the dumped fields
Payload(model_name, history, advanced_settings) ==
    [model |-> model_name,
     messages |-> Messages(history, advanced_settings),
     params |-> model_dump(Parameters(advanced_settings))]

\* One requests.post: the body sent, and how the thread that sent it ended
\* ("pending" while it runs; "assistant" or "error" when the reply or the
\* error was handed to the window; "TclError" when the window's widgets were
\* destroyed and the call into them raised out of the thread).
Post(payload, outcome) ==
    [model |-> payload.model, messages |-> payload.messages,
     params |-> payload.params, outcome |-> outcome]

\* how the HTTP exchange of requests.post can end
Responses == {"ok", "RequestException", "unexpected"}

Without(s, i) == SubSeq(s, 1, i - 1) \o SubSeq(s, i + 1, Len(s))

\* Mutant of call_begin: the request is posted whether or not the
\* parameters validate.
call_begin_NoValidation(t) ==
    LET id == threads[t].window
        w == windows[id]
    IN  /\ threads[t].pc = "start"
        /\ IF w.config_details.api_key = ""
           THEN /\ windows' = Collected([windows EXCEPT ![id] =
                        append_to_chat_display(@,
                            "Error: OpenRouter API Key is missing.", "error")],
                        Without(threads, t))
                /\ threads' = Without(threads, t)
                /\ UNCHANGED posts
           ELSE /\ posts' = Append(posts,
                        Post([model |-> w.config_details.model,
                              messages |-> Messages(w.history, w.advanced_settings),
                              params |-> [name \in ParameterFields |->
                                            w.advanced_settings[name]]],
                             "pending"))
                /\ threads' = [threads EXCEPT ![t].pc = "posted",
                                              ![t].post = Len(posts) + 1]
                /\ UNCHANGED windows

\* Mutant of call_begin: the message list is the history itself and not a
\* copy of it, so the system message is inserted into the history.
call_begin_SharesHistory(t) ==
    LET id == threads[t].window
        w == windows[id]
    IN  /\ threads[t].pc = "start"
        /\ IF w.config_details.api_key = ""
           THEN /\ windows' = Collected([windows EXCEPT ![id] =
                        append_to_chat_display(@,
                            "Error: OpenRouter API Key is missing.", "error")],
                        Without(threads, t))
                /\ threads' = Without(threads, t)
                /\ UNCHANGED posts
           ELSE IF Raises(w.advanced_settings)
           THEN /\ windows' = Collected([windows EXCEPT ![id] =
                        append_to_chat_display(
                            [@ EXCEPT !.history =
                                Messages(w.history, w.advanced_settings)],
                            "Parameter Validation Error", "error")],
                        Without(threads, t))
                /\ threads' = Without(threads, t)
                /\ UNCHANGED posts
           ELSE /\ posts' = Append(posts,
                        Post(Payload(w.config_details.model, w.history,
                                     w.advanced_settings),
                             "pending"))
                /\ threads' = [threads EXCEPT ![t].pc = "posted",
                                              ![t].post = Len(posts) + 1]
                /\ windows' = [windows EXCEPT ![id].history =
                                Messages(w.history, w.advanced_settings)]

\* The thread of one send, up to the moment requests.post is issued: the key
\* check of the window, then the validation of call_openrouter_api.
call_begin(t) ==
    LET id == threads[t].window
        w == windows[id]
    IN  /\ threads[t].pc = "start"
        /\ IF w.config_details.api_key = ""
           THEN /\ windows' = Collected([windows EXCEPT ![id] =
                        append_to_chat_display(@,
                            "Error: OpenRouter API Key is missing.", "error")],
                        Without(threads, t))
                /\ threads' = Without(threads, t)
                /\ UNCHANGED posts
           ELSE IF Raises(w.advanced_settings)
           THEN /\ windows' = Collected([windows EXCEPT ![id] =
                        append_to_chat_display(@,
                            "Parameter Validation Error", "error")],
                        Without(threads, t))
                /\ threads' = Without(threads, t)
                /\ UNCHANGED posts
           ELSE /\ posts' = Append(posts,
                        Post(Payload(w.config_details.model, w.history,
                                     w.advanced_settings),
                             "pending"))
                /\ threads' = [threads EXCEPT ![t].pc = "posted",
                                              ![t].post = Len(posts) + 1]
                /\ UNCHANGED windows

\* Mutant of call_end: a response for a window that was closed brings the
\* window back into open_query_windows.
call_end_Reregisters(t, response) ==
    LET id == threads[t].window
        w == windows[id]
    IN  /\ threads[t].pc = "posted"
        /\ windows' = Collected([windows EXCEPT ![id] =
                IF response = "ok"
                THEN update_chat_display(
                        [@ EXCEPT !.history =
                            Append(@, Message("assistant", Str(<<"r">>)))])
                ELSE IF response = "RequestException"
                THEN append_to_chat_display(@, "API Request Failed", "error")
                ELSE append_to_chat_display(@,
                        "An unexpected error occurred", "error")],
                Without(threads, t))
        /\ posts' = [posts EXCEPT ![threads[t].post].outcome =
                IF w.destroyed THEN "TclError"
                ELSE IF response = "ok" THEN "assistant" ELSE "error"]
        /\ threads' = Without(threads, t)
        /\ open_query_windows' =
                IF w.destroyed /\ Registered(w.config_name) = 0
                THEN Append(open_query_windows,
                        [name |-> w.config_name, window |-> id])
                ELSE open_query_windows

\* The rest of the thread: the response is read and handed to the window.
\* The reply is appended to the history before the display is rewritten;
\* on a destroyed window the first widget call raises TclError.
call_end(t, response) ==
    LET id == threads[t].window
        w == windows[id]
    IN  /\ threads[t].pc = "posted"
        /\ windows' = Collected([windows EXCEPT ![id] =
                IF response = "ok"
                THEN update_chat_display(
                        [@ EXCEPT !.history =
                            Append(@, Message("assistant", Str(<<"r">>)))])
                ELSE IF response = "RequestException"
                THEN append_to_chat_display(@, "API Request Failed", "error")
                ELSE append_to_chat_display(@,
                        "An unexpected error occurred", "error")],
                Without(threads, t))
        /\ posts' = [posts EXCEPT ![threads[t].post].outcome =
                IF w.destroyed THEN "TclError"
                ELSE IF response = "ok" THEN "assistant" ELSE "error"]
        /\ threads' = Without(threads, t)
        /\ UNCHANGED open_query_windows

(* ---- the profile editor (gui.py) ---------------------------------------- *)

Widget(key, default, type) == [key |-> key, default |-> default, type |-> type]

\* the widgets of self.profile_entries, in the order they are created
ProfileWidgets ==
    <<Widget("system_message", <<>>, "text"),
      Widget("tools", <<>>, "entry"),
      Widget("temperature", <<"1", ".", "0">>, "spinbox_float"),
      Widget("top_p", <<"1", ".", "0">>, "spinbox_float"),
      Widget("top_k", <<"0">>, "spinbox_int"),
      Widget("min_p", <<"0", ".", "0">>, "spinbox_float"),
      Widget("top_a", <<"0", ".", "0">>, "spinbox_float"),
      Widget("frequency_penalty", <<"0", ".", "0">>, "spinbox_float"),
      Widget("presence_penalty", <<"0", ".", "0">>, "spinbox_float"),
      Widget("repetition_penalty", <<"1", ".", "0">>, "spinbox_float"),
      Widget("max_tokens", <<"1", "0", "2", "4">>, "spinbox_int"),
      Widget("logit_bias", <<>>, "entry"),
      Widget("top_logprobs", <<"0">>, "spinbox_int"),
      Widget("seed", <<"0">>, "spinbox_int"),
      Widget("response_format", <<>>, "entry"),
      Widget("structured_outputs", <<>>, "entry"),
      Widget("stop", <<>>, "entry"),
      Widget("reasoning", <<>>, "entry"),
      Widget("verbosity", <<"0">>, "spinbox_int"),
      Widget("logprobs", <<>>, "bool"),
      Widget("parallel_tool_calls", <<>>, "bool"),
      Widget("include_reasoning", <<>>, "bool")>>

WidgetKeys == {ProfileWidgets[i].key : i \in 1..Len(ProfileWidgets)}

WidgetOf(key) ==
    ProfileWidgets[CHOOSE i \in 1..Len(ProfileWidgets) : ProfileWidgets[i].key = key]

NoModel == "Select a model to see parameters"

\* toggle_profile_fields: BooleanVars have no state, the other widgets are
\* enabled when enable is set and the model supports their key.
toggle_profile_fields(entries, enable, all, supported_params) ==
    [key \in WidgetKeys |->
        IF WidgetOf(key).type = "bool" THEN entries[key]
        ELSE [entries[key] EXCEPT !.state =
                IF enable /\ (all \/ key \in supported_params)
                THEN "normal" ELSE "disabled"]]

\* create_config_profiles_tab: every widget holds its default and the
\* fields are disabled until a model is selected.
InitialForm ==
    [model_combo |-> "",
     name_entry |-> "",
     entries |-> [key \in WidgetKeys |->
        [state |-> IF WidgetOf(key).type = "bool" THEN "normal" ELSE "disabled",
         text |-> WidgetOf(key).default,
         checked |-> FALSE]]]

\* get_model_parameters: the entries of models_data with this id
ModelsNamed(model_name) ==
    LET is(m) == m.id = model_name IN SelectSeq(models_data, is)

\* self.openrouter_models
openrouter_models == {models_data[i].id : i \in 1..Len(models_data)}

\* the fields of the form after on_profile_model_select with this selection
SelectedFields(entries, selected_model) ==
    IF selected_model = "" \/ selected_model = NoModel
    THEN toggle_profile_fields(entries, FALSE, FALSE, {})
    ELSE IF ModelsNamed(selected_model) = <<>>
            \/ ~ModelsNamed(selected_model)[1].has_supported_parameters
    THEN toggle_profile_fields(entries, TRUE, TRUE, {})
    ELSE toggle_profile_fields(entries, TRUE, FALSE,
            ModelsNamed(selected_model)[1].supported_parameters)

on_profile_model_select(selected_model) ==
    profile_form' = [profile_form EXCEPT
        !.model_combo = selected_model,
        !.entries = SelectedFields(@, selected_model)]

\* text.strip(), for blanks
RECURSIVE strip(_)
strip(s) ==
    IF s = <<>> THEN s
    ELSE IF Head(s) = " " THEN strip(Tail(s))
    ELSE IF s[Len(s)] = " " THEN strip(SubSeq(s, 1, Len(s) - 1))
    ELSE s

\* the value add_llm_profile stores for one widget, Absent when it stores none
StoredValue(key, w) ==
    LET type == WidgetOf(key).type
        value == strip(w.text)
        number == IF type = "spinbox_float" THEN float_of_str(value)
                  ELSE int_of_str(value)
    IN  IF type = "bool" THEN Bool(w.checked)
        ELSE IF w.state = "disabled" THEN Absent
        ELSE IF value = <<>> THEN Absent
        ELSE IF type \in {"spinbox_float", "spinbox_int"} /\ number # ValueError
        THEN number
        ELSE Str(value)

\* the settings mapping add_llm_profile builds from the form
FormSettings(form) ==
    [k \in SettingsKeys |->
        IF k = "model" THEN Str(<<form.model_combo>>)
        ELSE IF k \in WidgetKeys THEN StoredValue(k, form.entries[k])
        ELSE Absent]

\* the position of profile_name in self.llm_profiles, 0 when absent
ProfileAt(profile_name) ==
    LET at == {i \in 1..Len(llm_profiles) : llm_profiles[i].name = profile_name}
    IN  IF at = {} THEN 0 ELSE CHOOSE i \in at : TRUE

\* self.llm_profiles[profile_name] = settings
PutProfile(profiles, profile_name, settings) ==
    IF \E i \in 1..Len(profiles) : profiles[i].name = profile_name
    THEN [i \in 1..Len(profiles) |->
            IF profiles[i].name = profile_name
            THEN [name |-> profile_name, settings |-> settings]
            ELSE profiles[i]]
    ELSE Append(profiles, [name |-> profile_name, settings |-> settings])

\* add_llm_profile; overwrite is the answer to the Confirm Overwrite box
add_llm_profile(overwrite) ==
    LET profile_name == profile_form.name_entry
        model_name == profile_form.model_combo
    IN  IF profile_name = ""
        THEN dialog' = "Input Error" /\ UNCHANGED llm_profiles
        ELSE IF model_name = "" \/ model_name = NoModel
        THEN dialog' = "Input Error" /\ UNCHANGED llm_profiles
        ELSE IF ProfileAt(profile_name) > 0 /\ ~overwrite
        THEN UNCHANGED <<dialog, llm_profiles>>
        ELSE /\ llm_profiles' =
                    PutProfile(llm_profiles, profile_name,
                               FormSettings(profile_form))
             /\ dialog' = "Success"

\* delete_llm_profile with the deletion confirmed
delete_llm_profile(profile_name) ==
    LET keep(e) == e.name # profile_name
    IN  llm_profiles' = SelectSeq(llm_profiles, keep)

\* what load_profile_for_editing puts into one widget: a Text or an Entry
\* ignores insert and delete while it is disabled, a Spinbox is set anyway
LoadedWidget(key, w, value) ==
    LET type == WidgetOf(key).type
    IN  IF type = "bool" THEN [w EXCEPT !.checked = truthy(value)]
        ELSE IF type \in {"text", "entry"}
        THEN IF w.state = "disabled" THEN w ELSE [w EXCEPT !.text = str(value)]
        ELSE [w EXCEPT !.text = IF truthy(value) THEN str(value) ELSE <<"0">>]

\* the form after load_profile_for_editing of the profile with this data
LoadedForm(form, profile_name, profile_data) ==
    LET model_name == IF profile_data["model"].t = "str"
                      THEN profile_data["model"].s[1] ELSE ""
        known == model_name # "" /\ model_name \in openrouter_models
        fields == SelectedFields(form.entries, IF known THEN model_name ELSE NoModel)
    IN  [model_combo |-> IF known THEN model_name ELSE NoModel,
         name_entry |-> profile_name,
         entries |-> [key \in WidgetKeys |->
            LoadedWidget(key, fields[key],
                IF profile_data[key] = Absent THEN Str(<<>>)
                ELSE profile_data[key])]]

load_profile_for_editing(profile_name) ==
    /\ ProfileAt(profile_name) > 0
    /\ profile_form' =
            LoadedForm(profile_form, profile_name,
                       llm_profiles[ProfileAt(profile_name)].settings)

(* ---- the configuration file (gui.py load_data, save_data) --------------- *)

\* The contents of CONFIG_FILE: no file, text that is not JSON, or a JSON
\* object with the five recognised keys.
FileContents(kind, data) == [kind |-> kind, data |-> data]

NoData ==
    [shortcuts |-> <<>>, llm_configs |-> <<>>, llm_profiles |-> <<>>,
     saved_items |-> <<>>, files |-> <<>>]

NoFile == FileContents("absent", NoData)

\* text that json.load rejects; data is what the text held before the damage
Malformed(data) == FileContents("malformed", data)

\* Mutant of load_data: the stores read before the failure are kept.
load_data_PartialOnError ==
    /\ phase = "init"
    /\ phase' = "running"
    /\ IF config_file.kind = "absent"
       THEN UNCHANGED <<shortcuts, llm_configs, llm_list, llm_profiles, saved_items,
                        files, dialog>>
       ELSE /\ shortcuts' = shortcuts \o config_file.data.shortcuts
            /\ llm_configs' = config_file.data.llm_configs
            /\ llm_list' = update_llm_list_ui(config_file.data.llm_configs)
            /\ llm_profiles' = config_file.data.llm_profiles
            /\ saved_items' = config_file.data.saved_items
            /\ files' = config_file.data.files
            /\ dialog' = IF config_file.kind = "malformed"
                         THEN "Config Error" ELSE dialog

\* load_data, as __init__ calls it
load_data ==
    /\ phase = "init"
    /\ phase' = "running"
    /\ IF config_file.kind = "absent"
       THEN UNCHANGED <<shortcuts, llm_configs, llm_list, llm_profiles, saved_items,
                        files, dialog>>
       ELSE IF config_file.kind = "malformed"
       THEN \* json.load raises JSONDecodeError before any store is assigned
            /\ dialog' = "Config Error"
            /\ UNCHANGED <<shortcuts, llm_configs, llm_list, llm_profiles, saved_items,
                           files>>
       ELSE /\ shortcuts' = shortcuts \o config_file.data.shortcuts
            /\ llm_configs' = config_file.data.llm_configs
            /\ llm_list' = update_llm_list_ui(config_file.data.llm_configs)
            /\ llm_profiles' = config_file.data.llm_profiles
            /\ saved_items' = config_file.data.saved_items
            /\ files' = config_file.data.files
            /\ UNCHANGED dialog

\* save_data: the five stores are written as one JSON object
save_data ==
    config_file' = FileContents("object",
        [shortcuts |-> shortcuts, llm_configs |-> llm_configs,
         llm_profiles |-> llm_profiles, saved_items |-> saved_items,
         files |-> files])

\* on_closing: save_data, then the root window is destroyed
on_closing ==
    /\ phase = "running"
    /\ save_data
    /\ phase' = "closed"

\* add_file with the copy done: the entry of the same filename is replaced
add_file(filename) ==
    LET other(f) == f.filename # filename
    IN  files' = Append(SelectSeq(files, other),
                    [filename |-> filename, type |-> "Unknown"])

\* add_saved_item
add_saved_item(item_type, model, prompt, response) ==
    saved_items' = Append(saved_items,
        [type |-> item_type, model |-> model, prompt |-> prompt,
         response |-> response])

(* ---- start-up state of the windows, editor and file --------------------- *)

\* __init__ and create_widgets, with the model list not fetched yet; the
\* profile store and the configuration file are set by each specification
InitApp ==
    /\ tk_calls = {}
    /\ after_queue = <<>>
    /\ windows = <<>>
    /\ open_query_windows = <<>>
    /\ threads = <<>>
    /\ posts = <<>>
    /\ saved_items = <<>>
    /\ files = <<>>
    /\ models_data = <<>>
    /\ profile_form = InitialForm
    /\ phase = "running"

(* ---- the main specification: keys and table edits, one at a time -------- *)

\* __init__ with no persisted configuration file
Init ==
    /\ buffer = <<>>
    /\ shortcuts = <<>>
    /\ llm_configs = <<>>
    /\ llm_list = update_llm_list_ui(llm_configs)
    /\ listener = "running"
    /\ it = Idle
    /\ out = <<>>
    /\ lastKey = NoKey
    /\ dialog = "none"
    /\ typed = <<>>
    /\ inputq = <<>>
    /\ InitApp
    /\ llm_profiles = <<>>
    /\ config_file = NoFile

Appends(key) ==
    \/ key.cls = "KeyCode" /\ key.val # NoChar
    \/ key = SpecialKey("space")

\* A key event delivered to the listener; typing stops at MaxBuf characters.
KeyEvent ==
    /\ \E key \in Keys :
        /\ Appends(key) => Len(buffer) < MaxBuf
        /\ on_key_press(key)
    /\ UNCHANGED <<it, typed, inputq>>
    /\ UNCHANGED appvars

\* In the main specification the user fills the forms with values that are
\* accepted; SpecGui below also submits the values that are rejected.
AddShortcut ==
    /\ \E p \in ShortcutInputs :
        /\ p.trigger \notin Triggers(shortcuts)
        /\ add_shortcut(p.trigger, p.output)
    /\ UNCHANGED <<it, typed, inputq>>
    /\ UNCHANGED appvars

DeleteShortcut ==
    /\ \E t \in Triggers(shortcuts) : delete_shortcut(t)
    /\ UNCHANGED <<it, typed, inputq>>
    /\ UNCHANGED appvars

ToggleShortcut ==
    /\ \E i \in 1..Len(shortcuts) : toggle_shortcut(i)
    /\ UNCHANGED <<it, typed, inputq>>
    /\ UNCHANGED appvars

AddConfig ==
    /\ \E n \in ConfigNameInputs \ Names(llm_configs) :
        /\ n # ""
        /\ add_llm_config(n, "k", "m")
    /\ UNCHANGED <<it, typed, inputq>>
    /\ UNCHANGED appvars

DeleteConfig ==
    /\ \E n \in Names(llm_configs) : delete_llm_config(n)
    /\ UNCHANGED <<it, typed, inputq>>
    /\ UNCHANGED appvars

Next ==
    \/ KeyEvent
    \/ AddShortcut
    \/ DeleteShortcut
    \/ ToggleShortcut
    \/ AddConfig
    \/ DeleteConfig

Spec == Init /\ [][Next]_vars

(* ---- the forms of the GUI, with every kind of input ---------------------- *)

GuiAddShortcut ==
    /\ \E t \in TriggerInputs, o \in OutputInputs : add_shortcut(t, o)
    /\ UNCHANGED <<it, typed, inputq>>
    /\ UNCHANGED appvars

GuiAddConfig ==
    /\ \E n \in ConfigNameInputs, k \in ApiKeyInputs, m \in ModelInputs :
        add_llm_config(n, k, m)
    /\ UNCHANGED <<it, typed, inputq>>
    /\ UNCHANGED appvars

NextGui ==
    \/ GuiAddShortcut
    \/ DeleteShortcut
    \/ ToggleShortcut
    \/ GuiAddConfig
    \/ DeleteConfig

SpecGui == Init /\ [][NextGui]_vars

(* ---- typing from start-up, with the keys recorded ------------------------ *)

ConfigName ==
    <<"c1", "c2", "c3", "c4", "c5", "c6", "c7", "c8", "c9", "c10", "c11", "c12">>

SavedConfigs(n) ==
    [i \in 1..n |-> [name |-> ConfigName[i], api_key |-> "k", model |-> "m"]]

SavedCounts == {2, 5, 12}

SavedShortcuts ==
    {<<>>,
     <<[trigger |-> <<"b", "r", "b">>,
        output |-> <<"b", "e", " ", "r", "i", "g", "h", "t", " ", "b", "a", "c", "k">>,
        enabled |-> TRUE]>>,
     <<[trigger |-> <<"b", " ">>, output |-> <<"b", "y", " ">>, enabled |-> TRUE]>>}

\* __init__ with a persisted configuration file: load_data fills the tables.
InitTyped ==
    /\ buffer = <<>>
    /\ shortcuts \in SavedShortcuts
    /\ llm_configs \in {SavedConfigs(n) : n \in SavedCounts}
    /\ llm_list = update_llm_list_ui(llm_configs)
    /\ listener = "running"
    /\ it = Idle
    /\ out = <<>>
    /\ lastKey = NoKey
    /\ dialog = "none"
    /\ typed = <<>>
    /\ inputq = <<>>
    /\ InitApp
    /\ llm_profiles = <<>>
    /\ config_file = FileContents("object",
            [shortcuts |-> shortcuts, llm_configs |-> llm_configs,
             llm_profiles |-> <<>>, saved_items |-> <<>>, files |-> <<>>])

TypedKeys ==
    {KeyCode(c) : c \in {"_", "1", "2", "3", "9", "b", "r"}}
        \cup {SpecialKey("space")}

\* the character a key stands for in the record of typed keys
TypedChar(key) == IF key = SpecialKey("space") THEN " " ELSE key.val

TypedKey ==
    /\ Len(typed) < MaxTyped
    /\ \E key \in TypedKeys :
        /\ on_key_press(key)
        /\ typed' = Append(typed, TypedChar(key))
    /\ UNCHANGED <<it, inputq>>
    /\ UNCHANGED appvars

NextTyped == TypedKey

SpecTyped == InitTyped /\ [][NextTyped]_vars

(* ---- the listener thread and the GUI thread interleaved ------------------ *)

RaceKeys == {KeyCode("1"), KeyCode("_"), SpecialKey("enter")}

RaceKey ==
    /\ \E key \in RaceKeys :
        /\ Appends(key) => Len(buffer) < MaxBuf
        /\ on_key_press_begin(key)
    /\ UNCHANGED <<typed, inputq>>
    /\ UNCHANGED appvars

RaceLoop ==
    /\ on_key_press_loop
    /\ UNCHANGED <<typed, inputq>>
    /\ UNCHANGED appvars

RaceAddShortcut ==
    /\ Len(it.slots) < MaxSlots
    /\ \E p \in ShortcutInputs :
        /\ p.trigger \notin Triggers(shortcuts)
        /\ add_shortcut(p.trigger, p.output)
        /\ it' = IterSeesInsert(it, p.trigger)
    /\ UNCHANGED <<typed, inputq>>
    /\ UNCHANGED appvars

RaceDeleteShortcut ==
    /\ \E t \in Triggers(shortcuts) :
        /\ delete_shortcut(t)
        /\ it' = IterSeesDelete(it, t)
    /\ UNCHANGED <<typed, inputq>>
    /\ UNCHANGED appvars

NextRace ==
    \/ RaceKey
    \/ RaceLoop
    \/ RaceAddShortcut
    \/ RaceDeleteShortcut
    \/ ToggleShortcut

SpecRace == Init /\ [][NextRace]_vars

(* ---- the input stream: the listener hooks every key press ---------------- *)

\* The key object the listener is handed for a synthetic press.
ObservedKey(arg) ==
    IF arg = "backspace" THEN SpecialKey("backspace")
    ELSE IF arg = " " THEN SpecialKey("space")
    ELSE KeyCode(arg)

IsPress(e) == e.kind = "press"

\* The key presses a call of the callback puts into the input stream.
Presses(o) ==
    LET ps == SelectSeq(o, IsPress) IN [i \in 1..Len(ps) |-> ps[i].arg]

FeedbackShortcuts ==
    {<<[trigger |-> <<"a">>, output |-> <<"b", "a">>, enabled |-> TRUE]>>,
     <<[trigger |-> <<"b">>, output |-> <<"_", "_", "1">>, enabled |-> TRUE]>>}

InitFeedback ==
    /\ buffer = <<>>
    /\ shortcuts \in FeedbackShortcuts
    /\ llm_configs = SavedConfigs(1)
    /\ llm_list = update_llm_list_ui(llm_configs)
    /\ listener = "running"
    /\ it = Idle
    /\ out = <<>>
    /\ lastKey = NoKey
    /\ dialog = "none"
    /\ typed = <<>>
    /\ inputq = <<>>
    /\ InitApp
    /\ llm_profiles = <<>>
    /\ config_file = FileContents("object",
            [shortcuts |-> shortcuts, llm_configs |-> llm_configs,
             llm_profiles |-> <<>>, saved_items |-> <<>>, files |-> <<>>])

FeedbackChars == {"a", "b", "_"}

\* A key the user presses.
UserKey ==
    /\ \E c \in FeedbackChars :
        /\ Len(buffer) < MaxBuf
        /\ on_key_press(KeyCode(c))
    /\ inputq' = inputq \o Presses(out')
    /\ Len(inputq') <= MaxQueue
    /\ UNCHANGED <<it, typed>>
    /\ UNCHANGED appvars

\* keyboard.Listener(on_press=self.on_key_press) is called for every key
\* press of the system, the ones keyboard_controller made included.
DeliverSynthetic ==
    /\ inputq # <<>>
    /\ Appends(ObservedKey(Head(inputq))) => Len(buffer) < MaxBuf
    /\ on_key_press(ObservedKey(Head(inputq)))
    /\ inputq' = Tail(inputq) \o Presses(out')
    /\ Len(inputq') <= MaxQueue
    /\ UNCHANGED <<it, typed>>
    /\ UNCHANGED appvars

NextFeedback ==
    \/ UserKey
    \/ DeliverSynthetic

SpecFeedback == InitFeedback /\ [][NextFeedback]_vars

(* ---- query windows: sends, responses and profiles ------------------------ *)

\* lines of one chat display
MaxLines == MaxHistory + 1

\* HTTP POSTs recorded
MaxPosts == MaxThreads

With(settings, key, value) == [settings EXCEPT ![key] = value]

\* a profile whose settings pass the schema, with a system message
ValidProfile ==
    With(With(With(With(NoSettings,
        "model", Str(<<"m">>)),
        "system_message", Str(<<"s">>)),
        "temperature", Float(7)),
        "tools", List(<<"tool">>))

\* the profile add_llm_profile stores for the untouched form of a model that
\* names no supported parameters: verbosity is the integer 0
DefaultFormProfile ==
    FormSettings([InitialForm EXCEPT
        !.model_combo = "m",
        !.entries = toggle_profile_fields(@, TRUE, TRUE, {})])

\* the profile store load_data read from the configuration file
ChatProfiles ==
    <<[name |-> "valid", settings |-> ValidProfile],
      [name |-> "form", settings |-> DefaultFormProfile]>>

\* the stripped text of the prompt entry
PromptInputs == {<<>>, <<"p">>}

InitChat ==
    /\ buffer = <<>>
    /\ shortcuts = <<>>
    /\ llm_configs = SavedConfigs(1)
    /\ llm_list = update_llm_list_ui(llm_configs)
    /\ listener = "running"
    /\ it = Idle
    /\ out = <<>>
    /\ lastKey = NoKey
    /\ dialog = "none"
    /\ typed = <<>>
    /\ inputq = <<>>
    /\ InitApp
    /\ llm_profiles = ChatProfiles
    /\ config_file = FileContents("object",
            [shortcuts |-> shortcuts, llm_configs |-> llm_configs,
             llm_profiles |-> llm_profiles, saved_items |-> <<>>,
             files |-> <<>>])

\* what the window operations leave alone
chatframe ==
    <<keyvars, tk_calls, after_queue, llm_profiles, saved_items, files,
      models_data, profile_form, config_file, phase>>

\* the Query button of a configuration
ChatShow ==
    /\ Len(windows) < MaxWindows
    /\ \E config_name \in Names(llm_configs) : show_query_window(config_name)
    /\ UNCHANGED <<chatframe, threads, posts>>

ChatClose ==
    /\ \E id \in 1..Len(windows) : on_close(id)
    /\ UNCHANGED <<chatframe, threads, posts>>

\* SelectProfileWindow.apply_selection
ChatApplyProfile ==
    /\ \E id \in 1..Len(windows), p \in 1..Len(llm_profiles) :
        /\ Len(windows[id].chat_display) < MaxLines
        /\ apply_profile(id, llm_profiles[p].settings, llm_profiles[p].name)
    /\ UNCHANGED <<chatframe, open_query_windows, threads, posts>>

ChatNewConversation ==
    /\ \E id \in 1..Len(windows) : start_new_conversation(id)
    /\ UNCHANGED <<shortcuts, llm_configs, llm_list, listener, it, out, lastKey, dialog,
                   typed, inputq>>
    /\ UNCHANGED <<tk_calls, after_queue, llm_profiles, saved_items, files,
                   models_data, profile_form, config_file, phase>>
    /\ UNCHANGED <<open_query_windows, threads, posts>>

ChatSend ==
    /\ Len(threads) < MaxThreads
    /\ Len(posts) + Len(threads) < MaxPosts
    /\ \E id \in 1..Len(windows), prompt \in PromptInputs :
        /\ Len(windows[id].history) < MaxHistory
        /\ send_query_threaded(id, prompt)
    /\ UNCHANGED <<chatframe, open_query_windows, posts>>

ChatCallBegin ==
    /\ \E t \in 1..Len(threads) :
        /\ Len(windows[threads[t].window].chat_display) < MaxLines
        /\ call_begin(t)
    /\ UNCHANGED <<chatframe, open_query_windows>>

ChatCallEnd ==
    /\ \E t \in 1..Len(threads), response \in Responses :
        /\ Len(windows[threads[t].window].chat_display) < MaxLines
        /\ call_end(t, response)
    /\ UNCHANGED chatframe

NextChat ==
    \/ ChatShow
    \/ ChatClose
    \/ ChatApplyProfile
    \/ ChatNewConversation
    \/ ChatSend
    \/ ChatCallBegin
    \/ ChatCallEnd

SpecChat == InitChat /\ [][NextChat]_vars

(* ---- the profile editor: editing, saving and loading profiles ------------ *)

\* the data of the models request: one model that names the parameters it
\* supports and one that does not
FetchedModels ==
    <<[id |-> "m", has_supported_parameters |-> TRUE,
       supported_parameters |-> {"temperature", "top_p", "max_tokens", "tools"}],
      [id |-> "n", has_supported_parameters |-> FALSE,
       supported_parameters |-> {}]>>

\* what the user types into a field of the form
EditTexts(key) ==
    CASE key = "temperature" ->
            {<<>>, <<"0", ".", "7">>, <<"2", ".", "5">>}
      [] key = "max_tokens" -> {<<>>, <<"2", "5", "6">>}
      [] key = "tools" -> {<<>>, <<"[", "]">>}
      [] OTHER -> {}

EditedKeys == {"temperature", "max_tokens", "tools"}

\* the names typed into the profile name entry
ProfileNames == {"a"}

InitProfiles ==
    /\ buffer = <<>>
    /\ shortcuts = <<>>
    /\ llm_configs = <<>>
    /\ llm_list = update_llm_list_ui(llm_configs)
    /\ listener = "running"
    /\ it = Idle
    /\ out = <<>>
    /\ lastKey = NoKey
    /\ dialog = "none"
    /\ typed = <<>>
    /\ inputq = <<>>
    /\ InitApp
    /\ llm_profiles = <<>>
    /\ config_file = NoFile

\* what the profile editor leaves alone
profileframe ==
    <<keyvars, tk_calls, after_queue, windows, open_query_windows, threads,
      posts, saved_items, files, config_file, phase>>

editorframe ==
    <<buffer, shortcuts, llm_configs, llm_list, listener, it, out, lastKey, typed, inputq,
      tk_calls, after_queue, windows, open_query_windows, threads, posts,
      saved_items, files, config_file, phase>>

\* fetch_openrouter_models and its update_ui
ProfFetch ==
    /\ models_data = <<>>
    /\ models_data' = FetchedModels
    /\ profile_form' = [profile_form EXCEPT !.model_combo = NoModel]
    /\ UNCHANGED <<profileframe, llm_profiles>>

\* a model is picked in the combobox
ProfSelectModel ==
    /\ \E selected_model \in openrouter_models :
            on_profile_model_select(selected_model)
    /\ UNCHANGED <<profileframe, llm_profiles, models_data>>

\* the user types into an enabled field
ProfEdit ==
    /\ \E key \in EditedKeys : \E text \in EditTexts(key) :
        /\ profile_form.entries[key].state = "normal"
        /\ profile_form' = [profile_form EXCEPT !.entries[key].text = text]
    /\ UNCHANGED <<profileframe, llm_profiles, models_data>>

\* the user clicks the Logprobs checkbutton
ProfToggle ==
    /\ profile_form' = [profile_form EXCEPT
            !.entries["logprobs"].checked = ~@]
    /\ UNCHANGED <<profileframe, llm_profiles, models_data>>

ProfName ==
    /\ \E profile_name \in ProfileNames \cup {""} :
            profile_form' = [profile_form EXCEPT !.name_entry = profile_name]
    /\ UNCHANGED <<profileframe, llm_profiles, models_data>>

ProfAdd ==
    /\ \E overwrite \in BOOLEAN : add_llm_profile(overwrite)
    /\ UNCHANGED <<editorframe, models_data, profile_form>>

ProfLoad ==
    /\ \E p \in 1..Len(llm_profiles) :
            load_profile_for_editing(llm_profiles[p].name)
    /\ UNCHANGED <<profileframe, llm_profiles, models_data>>

ProfDelete ==
    /\ \E p \in 1..Len(llm_profiles) : delete_llm_profile(llm_profiles[p].name)
    /\ UNCHANGED <<profileframe, models_data, profile_form>>

NextProfiles ==
    \/ ProfFetch
    \/ ProfSelectModel
    \/ ProfEdit
    \/ ProfToggle
    \/ ProfName
    \/ ProfAdd
    \/ ProfLoad
    \/ ProfDelete

SpecProfiles == InitProfiles /\ [][NextProfiles]_vars

(* ---- requests of one window over a range of parameter values ------------- *)

\* the parameters with numeric bounds that the requests are tried with
RangedFloats ==
    {"temperature", "top_p", "frequency_penalty", "presence_penalty",
     "repetition_penalty"}

\* values of a float parameter, in tenths: below, at and above every bound
FloatValues == {-25, -21, -20, -10, -1, 0, 7, 10, 11, 20, 21, 25}

\* values of top_logprobs
LogprobValues == {-1, 0, 10, 20, 21}

\* the settings of the window: nothing supplied, or one parameter supplied
ParamSettings ==
    {NoSettings}
        \cup {With(NoSettings, key, Float(n)) : key \in RangedFloats, n \in FloatValues}
        \cup {With(NoSettings, "top_logprobs", Integer(n)) : n \in LogprobValues}

\* one window is open on a saved configuration, with a profile applied
InitParams ==
    /\ buffer = <<>>
    /\ shortcuts = <<>>
    /\ llm_configs = SavedConfigs(1)
    /\ llm_list = update_llm_list_ui(llm_configs)
    /\ listener = "running"
    /\ it = Idle
    /\ out = <<>>
    /\ lastKey = NoKey
    /\ dialog = "none"
    /\ typed = <<>>
    /\ inputq = <<>>
    /\ tk_calls = {}
    /\ after_queue = <<>>
    /\ \E settings \in ParamSettings :
        /\ llm_profiles = <<[name |-> "p", settings |-> settings]>>
        /\ windows =
            <<[LLMQueryWindow("c1", [api_key |-> "k", model |-> "m"]) EXCEPT
                    !.advanced_settings = settings,
                    !.current_profile_name = "p",
                    !.chat_display =
                        <<Line("system", "--- Applied settings profile ---", None)>>]>>
    /\ open_query_windows = <<[name |-> "c1", window |-> 1]>>
    /\ threads = <<>>
    /\ posts = <<>>
    /\ saved_items = <<>>
    /\ files = <<>>
    /\ models_data = <<>>
    /\ profile_form = InitialForm
    /\ phase = "running"
    /\ config_file = FileContents("object",
            [shortcuts |-> shortcuts, llm_configs |-> llm_configs,
             llm_profiles |-> llm_profiles, saved_items |-> <<>>,
             files |-> <<>>])

NextParams ==
    \/ ChatSend
    \/ ChatCallBegin
    \/ ChatCallEnd

SpecParams == InitParams /\ [][NextParams]_vars

(* ---- runs of the application over one configuration file ----------------- *)

\* saved items kept in one run
MaxItems == 1

\* DesktopUtilitiesApp.__init__ up to the call of load_data
InitLoad ==
    /\ buffer = <<>>
    /\ shortcuts = <<>>
    /\ llm_configs = <<>>
    /\ llm_list = update_llm_list_ui(llm_configs)
    /\ listener = "running"
    /\ it = Idle
    /\ out = <<>>
    /\ lastKey = NoKey
    /\ dialog = "none"
    /\ typed = <<>>
    /\ inputq = <<>>
    /\ tk_calls = {}
    /\ after_queue = <<>>
    /\ windows = <<>>
    /\ open_query_windows = <<>>
    /\ threads = <<>>
    /\ posts = <<>>
    /\ llm_profiles = <<>>
    /\ saved_items = <<>>
    /\ files = <<>>
    /\ models_data = <<>>
    /\ profile_form = InitialForm
    /\ phase = "init"
    /\ config_file = NoFile

\* what the store edits of a run leave alone
loadframe ==
    <<buffer, listener, it, out, lastKey, typed, inputq, tk_calls, after_queue,
      windows, open_query_windows, threads, posts, models_data, profile_form>>

LoadData ==
    /\ load_data
    /\ UNCHANGED <<loadframe, config_file>>

LoadAddShortcut ==
    /\ phase = "running"
    /\ AddShortcut

LoadToggleShortcut ==
    /\ phase = "running"
    /\ \E i \in 1..Len(shortcuts) : toggle_shortcut(i)
    /\ UNCHANGED <<it, typed, inputq>>
    /\ UNCHANGED appvars

LoadAddConfig ==
    /\ phase = "running"
    /\ add_llm_config("c1", "k", "m")
    /\ UNCHANGED <<it, typed, inputq>>
    /\ UNCHANGED appvars

\* a profile is saved in the editor
LoadAddProfile ==
    /\ phase = "running"
    /\ llm_profiles' = PutProfile(llm_profiles, "valid", ValidProfile)
    /\ UNCHANGED <<loadframe, shortcuts, llm_configs, llm_list, dialog, saved_items,
                   files, config_file, phase>>

LoadSaveItem ==
    /\ phase = "running"
    /\ Len(saved_items) < MaxItems
    /\ add_saved_item("Prompt", "m", <<"p">>, <<>>)
    /\ UNCHANGED <<loadframe, shortcuts, llm_configs, llm_list, dialog, llm_profiles,
                   files, config_file, phase>>

LoadAddFile ==
    /\ phase = "running"
    /\ add_file("f")
    /\ UNCHANGED <<loadframe, shortcuts, llm_configs, llm_list, dialog, llm_profiles,
                   saved_items, config_file, phase>>

\* the main window is closed
LoadClose ==
    /\ on_closing
    /\ UNCHANGED <<loadframe, shortcuts, llm_configs, llm_list, dialog, llm_profiles,
                   saved_items, files>>

\* the file is damaged while the application is not running
LoadDamage ==
    /\ phase = "closed"
    /\ config_file.kind = "object"
    /\ config_file' = Malformed(config_file.data)
    /\ UNCHANGED <<loadframe, shortcuts, llm_configs, llm_list, dialog, llm_profiles,
                   saved_items, files, phase>>

\* the application is started again: __init__ up to the call of load_data
LoadStart ==
    /\ phase = "closed"
    /\ phase' = "init"
    /\ shortcuts' = <<>>
    /\ llm_configs' = <<>>
    /\ llm_list' = <<>>
    /\ llm_profiles' = <<>>
    /\ saved_items' = <<>>
    /\ files' = <<>>
    /\ dialog' = "none"
    /\ UNCHANGED <<loadframe, config_file>>

NextLoad ==
    \/ LoadData
    \/ LoadAddShortcut
    \/ LoadToggleShortcut
    \/ LoadAddConfig
    \/ LoadAddProfile
    \/ LoadSaveItem
    \/ LoadAddFile
    \/ LoadClose
    \/ LoadDamage
    \/ LoadStart

SpecLoad == InitLoad /\ [][NextLoad]_vars

(* ---- the listener thread and the GUI thread of the running application --- *)

\* the keys pressed while the application runs
AppKeys == {KeyCode("_"), KeyCode("1"), SpecialKey("backspace")}

\* The calls into Tk that one call of on_key_press makes on the listener
\* thread: root.after on an alias match, and data["enabled"].get() for the
\* entries that the shortcut loop visits.
TkCalls(key) ==
    IF key.cls = "Key" \/ key.val = NoChar THEN {}
    ELSE IF AliasPosition(Append(buffer, key.val)) > 0 THEN {"after"}
    ELSE IF shortcuts = <<>> THEN {}
    ELSE {"BooleanVar.get"}

\* the callbacks that the events of o hand to root.after
AfterCalls(o) ==
    LET is(e) == e.kind = "after"
        rs == SelectSeq(o, is)
    IN  [i \in 1..Len(rs) |-> rs[i].arg]

InitApplication ==
    /\ buffer = <<>>
    /\ shortcuts = <<>>
    /\ llm_configs = SavedConfigs(1)
    /\ llm_list = update_llm_list_ui(llm_configs)
    /\ listener = "running"
    /\ it = Idle
    /\ out = <<>>
    /\ lastKey = NoKey
    /\ dialog = "none"
    /\ typed = <<>>
    /\ inputq = <<>>
    /\ InitApp
    /\ llm_profiles = <<>>
    /\ config_file = FileContents("object",
            [shortcuts |-> shortcuts, llm_configs |-> llm_configs,
             llm_profiles |-> <<>>, saved_items |-> <<>>, files |-> <<>>])

\* the listener thread: one key, handled by on_key_press
AppKey ==
    /\ \E key \in AppKeys :
        /\ Appends(key) => Len(buffer) < MaxBuf
        /\ on_key_press(key)
        /\ tk_calls' = TkCalls(key)
    /\ after_queue' = after_queue \o AfterCalls(out')
    /\ Len(after_queue') <= MaxWindows
    /\ UNCHANGED <<it, typed, inputq>>
    /\ UNCHANGED <<windows, open_query_windows, threads, posts, llm_profiles,
                   saved_items, files, models_data, profile_form, config_file,
                   phase>>

\* the GUI thread runs the oldest callback of root.after
AppRunAfter ==
    /\ after_queue # <<>>
    /\ Registered(Head(after_queue)) = 0 => Len(windows) < MaxWindows
    /\ show_query_window(Head(after_queue))
    /\ after_queue' = Tail(after_queue)
    /\ UNCHANGED <<keyvars, tk_calls, threads, posts, llm_profiles, saved_items,
                   files, models_data, profile_form, config_file, phase>>

\* save_data on the GUI thread
AppSave ==
    /\ save_data
    /\ UNCHANGED <<keyvars, tk_calls, after_queue, windows, open_query_windows,
                   threads, posts, llm_profiles, saved_items, files,
                   models_data, profile_form, phase>>

\* the shortcut and the configuration that are added and deleted
AppAddShortcut ==
    /\ <<"1">> \notin Triggers(shortcuts)
    /\ add_shortcut(<<"1">>, <<"x">>)
    /\ UNCHANGED <<it, typed, inputq>>
    /\ UNCHANGED appvars

AppAddConfig ==
    /\ "c1" \notin Names(llm_configs)
    /\ add_llm_config("c1", "k", "m")
    /\ UNCHANGED <<it, typed, inputq>>
    /\ UNCHANGED appvars

\* the operations of the GUI thread
GuiThread ==
    \/ AppAddShortcut
    \/ DeleteShortcut
    \/ AppAddConfig
    \/ DeleteConfig
    \/ AppRunAfter
    \/ ChatShow
    \/ ChatClose
    \/ ChatNewConversation
    \/ ChatSend
    \/ AppSave

\* The request threads that ChatSend starts do not run in this specification.
NextApplication ==
    \/ AppKey
    \/ GuiThread

SpecApp == InitApplication /\ [][NextApplication]_vars

(* ---- query windows shown and closed while configurations change ---------- *)

\* LLMQueryWindow objects created in one run, the closed ones included
MaxShown == MaxWindows + 2

InitWindows ==
    /\ buffer = <<>>
    /\ shortcuts = <<>>
    /\ llm_configs = SavedConfigs(1)
    /\ llm_list = update_llm_list_ui(llm_configs)
    /\ listener = "running"
    /\ it = Idle
    /\ out = <<>>
    /\ lastKey = NoKey
    /\ dialog = "none"
    /\ typed = <<>>
    /\ inputq = <<>>
    /\ InitApp
    /\ llm_profiles = <<>>
    /\ config_file = FileContents("object",
            [shortcuts |-> shortcuts, llm_configs |-> llm_configs,
             llm_profiles |-> <<>>, saved_items |-> <<>>, files |-> <<>>])

\* show_query_window, called by a Query button or by a root.after request
\* whose configuration may have been deleted since it was enqueued
WinShow ==
    /\ Len(windows) < MaxShown
    /\ \E config_name \in ConfigNameInputs \ {""} :
            show_query_window(config_name)
    /\ UNCHANGED <<chatframe, threads, posts>>

NextWindows ==
    \/ WinShow
    \/ ChatClose
    \/ AddConfig
    \/ DeleteConfig

SpecWindows == InitWindows /\ [][NextWindows]_vars

(* ---- start-up with a configuration file that was written by hand --------- *)

\* The shortcuts objects of the files: written by save_data, or typed into
\* the file with an empty key or an empty output.
EditedShortcuts ==
    {<<>>,
     <<[trigger |-> <<"1">>, output |-> <<"x">>, enabled |-> TRUE]>>,
     <<[trigger |-> <<>>, output |-> <<"x">>, enabled |-> TRUE]>>,
     <<[trigger |-> <<"1">>, output |-> <<>>, enabled |-> TRUE]>>}

InitEdited ==
    /\ buffer = <<>>
    /\ shortcuts = <<>>
    /\ llm_configs = <<>>
    /\ llm_list = update_llm_list_ui(llm_configs)
    /\ listener = "running"
    /\ it = Idle
    /\ out = <<>>
    /\ lastKey = NoKey
    /\ dialog = "none"
    /\ typed = <<>>
    /\ inputq = <<>>
    /\ tk_calls = {}
    /\ after_queue = <<>>
    /\ windows = <<>>
    /\ open_query_windows = <<>>
    /\ threads = <<>>
    /\ posts = <<>>
    /\ llm_profiles = <<>>
    /\ saved_items = <<>>
    /\ files = <<>>
    /\ models_data = <<>>
    /\ profile_form = InitialForm
    /\ phase = "init"
    /\ \E s \in EditedShortcuts :
        config_file = FileContents("object",
            [shortcuts |-> s, llm_configs |-> <<>>, llm_profiles |-> <<>>,
             saved_items |-> <<>>, files |-> <<>>])

\* the trigger and output entries of the Shortcuts tab, with every input
EditedAddShortcut ==
    /\ phase = "running"
    /\ GuiAddShortcut

NextEdited ==
    \/ LoadData
    \/ EditedAddShortcut
    \/ LoadToggleShortcut
    \/ LoadClose
    \/ LoadStart

SpecEdited == InitEdited /\ [][NextEdited]_vars

(* ======================================================================== *)
(* Properties.  What a call of the callback did is read off its output with *)
(* the observers below; what it should have done is stated from the buffer  *)
(* and the tables of the state the call started in.                         *)
(* ======================================================================== *)

BackspacePresses(o) ==
    Cardinality({i \in 1..Len(o) : o[i] = [kind |-> "press", arg |-> "backspace"]})

BackspaceReleases(o) ==
    Cardinality({i \in 1..Len(o) : o[i] = [kind |-> "release", arg |-> "backspace"]})

\* o erases exactly n characters
Erases(o, n) == BackspacePresses(o) = n /\ BackspaceReleases(o) = n

IsTextPress(e) == e.kind = "press" /\ e.arg # "backspace"

\* the text o injects
TypedText(o) ==
    LET ps == SelectSeq(o, IsTextPress) IN [i \in 1..Len(ps) |-> ps[i].arg]

IsWindowRequest(e) == e.kind = "after"

\* the configurations o asks the GUI thread to open a window for
Requested(o) ==
    LET rs == SelectSeq(o, IsWindowRequest) IN [i \in 1..Len(rs) |-> rs[i].arg]

IsSuffix(t, s) ==
    /\ Len(t) <= Len(s)
    /\ \A i \in 1..Len(t) : t[i] = s[Len(s) - Len(t) + i]

\* the length of the longest run of digits that ends s
DigitRun(s) ==
    CHOOSE d \in 0..Len(s) :
        /\ \A j \in (Len(s) - d + 1)..Len(s) : s[j] \in Digits
        /\ d < Len(s) => s[Len(s) - d] \notin Digits

\* s ends with __ followed by at least one digit
EndsWithAlias(s) ==
    LET d == DigitRun(s)
    IN  /\ d >= 1
        /\ Len(s) >= d + 2
        /\ s[Len(s) - d] = "_"
        /\ s[Len(s) - d - 1] = "_"

RECURSIVE Pow10(_)
Pow10(n) == IF n = 0 THEN 1 ELSE 10 * Pow10(n - 1)

RECURSIVE DecimalFrom(_, _)
DecimalFrom(s, i) ==
    IF i > Len(s) THEN 0
    ELSE DigitVal[s[i]] * Pow10(Len(s) - i) + DecimalFrom(s, i + 1)

\* the number N of the __N that ends s
AliasNumber(s) == DecimalFrom(s, Len(s) - DigitRun(s) + 1)

\* the length of the __N that ends s
AliasLength(s) == DigitRun(s) + 2

InRangeAlias(s) ==
    EndsWithAlias(s) /\ AliasNumber(s) \in 1..Len(llm_configs)

OutOfRangeAlias(s) ==
    EndsWithAlias(s) /\ AliasNumber(s) \notin 1..Len(llm_configs)

\* the positions of the enabled shortcuts whose trigger ends s
EnabledMatches(s) ==
    {i \in 1..Len(shortcuts) :
        shortcuts[i].enabled /\ IsSuffix(shortcuts[i].trigger, s)}

Least(S) == CHOOSE x \in S : \A y \in S : x <= y

\* the call fired shortcut e and nothing else
FiredShortcut(e) ==
    /\ Erases(out', Len(e.trigger))
    /\ TypedText(out') = e.output
    /\ Requested(out') = <<>>
    /\ buffer' = <<>>

\* C1: when a printable character has been appended and no in-range alias
\* ends the buffer, the first enabled shortcut in table order whose trigger
\* ends the buffer fires (len(trigger) backspace pairs, its output injected,
\* buffer reset) and nothing else fires; disabled entries neither fire nor
\* stop the scan; when no enabled trigger ends the buffer nothing is emitted.
C1_FirstEnabledShortcutFires ==
    [][\A c \in PrintableChars :
        LET buf == Append(buffer, c)
        IN  (on_key_press(KeyCode(c)) /\ ~InRangeAlias(buf)) =>
                IF EnabledMatches(buf) = {}
                THEN out' = <<>>
                ELSE FiredShortcut(shortcuts[Least(EnabledMatches(buf))])]_vars

\* C1 witness: the second entry fired (three characters erased, its output
\* typed) on the key 1 although the first entry, disabled, also ends in 1.
C1_Witness ==
    /\ lastKey = KeyCode("1")
    /\ Len(shortcuts) = 2
    /\ shortcuts[1] = [trigger |-> <<"1">>, output |-> <<"x">>, enabled |-> FALSE]
    /\ shortcuts[2].trigger = <<"_", "_", "1">>
    /\ shortcuts[2].enabled
    /\ llm_configs = <<>>
    /\ Erases(out, 3)
    /\ TypedText(out) = <<"y">>
    /\ buffer = <<>>

\* C2: when the appended character makes the buffer end with __N, N in
\* [1, number of configs], the alias wins over every shortcut: exactly
\* len(__N) backspace pairs, one window request for the config at position N
\* of the insertion-ordered list, buffer reset, and no shortcut output.
C2_AliasTakesPriority ==
    [][\A c \in PrintableChars :
        LET buf == Append(buffer, c)
        IN  (on_key_press(KeyCode(c)) /\ InRangeAlias(buf)) =>
                /\ Erases(out', AliasLength(buf))
                /\ Requested(out') = <<llm_configs[AliasNumber(buf)].name>>
                /\ TypedText(out') = <<>>
                /\ buffer' = <<>>]_vars

\* C2 witness: __1 was typed with c2 first in the list and an enabled
\* shortcut __1 -> y in the table: three characters erased, a window
\* requested for c2, nothing typed.
C2_Witness ==
    /\ lastKey = KeyCode("1")
    /\ Len(llm_configs) = 2
    /\ llm_configs[1].name = "c2"
    /\ \E i \in 1..Len(shortcuts) :
        shortcuts[i].trigger = <<"_", "_", "1">> /\ shortcuts[i].enabled
    /\ Erases(out, 3)
    /\ Requested(out) = <<"c2">>
    /\ TypedText(out) = <<>>
    /\ buffer = <<>>

\* C4: when the appended character makes the buffer end with __N, N outside
\* [1, number of configs], the alias step does nothing (no window request, no
\* erase, no reset of its own) and the shortcut scan runs on the same buffer
\* in the same call.
C4_OutOfRangeAliasFallsThrough ==
    [][\A c \in PrintableChars :
        LET buf == Append(buffer, c)
        IN  (on_key_press(KeyCode(c)) /\ OutOfRangeAlias(buf)) =>
                /\ Requested(out') = <<>>
                /\ IF EnabledMatches(buf) = {}
                   THEN out' = <<>> /\ buffer' = buf
                   ELSE FiredShortcut(shortcuts[Least(EnabledMatches(buf))])]_vars

\* C4 witness: with no config at all __1 is out of range, and the shortcut
\* whose trigger is __1 itself fired on that key.
C4_Witness ==
    /\ lastKey = KeyCode("1")
    /\ llm_configs = <<>>
    /\ Len(shortcuts) = 1
    /\ shortcuts[1] = [trigger |-> <<"_", "_", "1">>, output |-> <<"y">>,
                       enabled |-> TRUE]
    /\ Erases(out, 3)
    /\ TypedText(out) = <<"y">>
    /\ Requested(out) = <<>>
    /\ buffer = <<>>

\* C5 as claimed: when the Space key makes the buffer end with an enabled
\* trigger (and no in-range alias), that shortcut fires on that keystroke.
C5_SpaceRunsMatchDetection ==
    [][LET buf == Append(buffer, " ")
       IN  (/\ on_key_press(SpecialKey("space"))
            /\ ~InRangeAlias(buf)
            /\ EnabledMatches(buf) # {}) =>
                FiredShortcut(shortcuts[Least(EnabledMatches(buf))])]_vars

\* the keys that are neither a printable character, nor Space, nor Backspace
OtherKeys == {k \in Keys : ~Appends(k) /\ k # SpecialKey("backspace")}

\* C6 as claimed: every key that is neither a printable character, nor
\* Space, nor Backspace empties the buffer and emits nothing.
C6_OtherKeysResetBuffer ==
    [][\A key \in OtherKeys :
        on_key_press(key) => (buffer' = <<>> /\ out' = <<>>)]_vars

\* C7: Backspace removes exactly the last character of the buffer (none of
\* an empty buffer), emits nothing, runs no match detection, and leaves the
\* other characters and both tables as they were.
C7_BackspaceDropsLastCharacter ==
    [][on_key_press(SpecialKey("backspace")) =>
        /\ Len(buffer') = (IF buffer = <<>> THEN 0 ELSE Len(buffer) - 1)
        /\ \A i \in 1..Len(buffer') : buffer'[i] = buffer[i]
        /\ out' = <<>>
        /\ shortcuts' = shortcuts
        /\ llm_configs' = llm_configs]_vars

\* C7 witness: after a Backspace the buffer is left ending with the enabled
\* trigger 1, and nothing was emitted.
C7_Witness ==
    /\ lastKey = SpecialKey("backspace")
    /\ buffer = <<"0", "1">>
    /\ \E i \in 1..Len(shortcuts) :
        shortcuts[i].trigger = <<"1">> /\ shortcuts[i].enabled
    /\ out = <<>>

\* C3 as claimed: for every N in [1, count], once _ _ and the digits of N
\* have been typed from start-up (empty buffer), the call of the last digit
\* requested the window of the config at position N and erased len(__N)
\* characters.
C3_TypingAliasOpensConfigN ==
    \A n \in 1..Len(llm_configs) :
        typed = <<"_", "_">> \o DecimalDigits(n) =>
            /\ Requested(out) = <<llm_configs[n].name>>
            /\ Erases(out, Len(typed))

\* C8: add_shortcut(T, O) with T and O non-empty and T absent appends
\* (T, O, enabled) and keeps the entries before it; with an empty field or a
\* trigger already present it leaves the table exactly as it was.
C8_AddShortcutAppendsOrRejects ==
    [][\A t \in TriggerInputs, o \in OutputInputs :
        add_shortcut(t, o) =>
            IF /\ t # <<>>
               /\ o # <<>>
               /\ \A i \in 1..Len(shortcuts) : shortcuts[i].trigger # t
            THEN /\ Len(shortcuts') = Len(shortcuts) + 1
                 /\ \A i \in 1..Len(shortcuts) : shortcuts'[i] = shortcuts[i]
                 /\ shortcuts'[Len(shortcuts')] =
                        [trigger |-> t, output |-> o, enabled |-> TRUE]
            ELSE shortcuts' = shortcuts]_vars

\* C8 witness: a duplicate add has been refused while the table holds the
\* disabled entry 1 -> x followed by the later entry __1 -> y.
C8_Witness ==
    /\ dialog = "Duplicate Error"
    /\ shortcuts =
        <<[trigger |-> <<"1">>, output |-> <<"x">>, enabled |-> FALSE],
          [trigger |-> <<"_", "_", "1">>, output |-> <<"y">>, enabled |-> TRUE]>>

\* C9 as claimed: no interleaving of GUI edits with the loop over the
\* shortcut table makes the iteration raise.
C9_IterationNeverRaises == listener # "RuntimeError"

\* C10 as claimed: a synthetic key press is not processed as typed input; it
\* neither changes the buffer nor makes the callback emit anything.
C10_SyntheticKeysAreIgnored ==
    [][DeliverSynthetic => (buffer' = buffer /\ out' = <<>>)]_vars

\* C11 as claimed: the listener runs for the whole lifetime of the process;
\* no key event makes on_key_press raise, so the listener never stops.
C11_ListenerKeepsRunning == listener = "running"


C13_StoredProfilesValidate ==
    \A p \in 1..Len(llm_profiles) : ~Raises(llm_profiles[p].settings)


\* the ranges as the claim C14 states them, in tenths for the floats
StatedRange(key) ==
    CASE key = "temperature" -> 0..20
      [] key = "top_p" -> 0..10
      [] key \in {"frequency_penalty", "presence_penalty", "repetition_penalty"}
            -> -20..20
      [] key = "top_logprobs" -> 0..20

\* the ranges with repetition_penalty in [0,2]
AmendedRange(key) ==
    CASE key = "temperature" -> 0..20
      [] key = "top_p" -> 0..10
      [] key \in {"frequency_penalty", "presence_penalty"} -> -20..20
      [] key = "repetition_penalty" -> 0..20
      [] key = "top_logprobs" -> 0..20

RangedKeys == RangedFloats \cup {"top_logprobs"}

\* the request of window id was refused by the validation
Refused(id) ==
    /\ windows[id].chat_display # <<>>
    /\ windows[id].chat_display[Len(windows[id].chat_display)] =
            Line("error", "Parameter Validation Error", None)

\* the request of window id was posted
Posted(id) == \E t \in 1..Len(threads) :
    threads[t].window = id /\ threads[t].pc = "posted"

\* C14 as claimed: a request is refused exactly when a supplied numeric
\* parameter lies outside its stated range (temperature [0,2], top_p [0,1],
\* the three penalties [-2,2], top_logprobs [0,20]), and no posted payload
\* holds a value outside its range.
C14_StatedRangesDecide ==
    /\ \A id \in 1..Len(windows) :
        LET s == windows[id].advanced_settings
            inside == \A key \in RangedKeys :
                        s[key] = Absent \/ s[key].n \in StatedRange(key)
        IN  /\ Refused(id) => ~inside
            /\ Posted(id) => inside
    /\ \A i \in 1..Len(posts) : \A key \in RangedKeys :
            posts[i].params[key] = Absent
                \/ posts[i].params[key].n \in StatedRange(key)

\* C14 amended: the same with repetition_penalty in [0,2]: a request is
\* refused exactly when a supplied numeric parameter lies outside temperature
\* [0,2], top_p [0,1], frequency_penalty and presence_penalty [-2,2],
\* repetition_penalty [0,2], top_logprobs [0,20], and no posted payload holds
\* a value outside these ranges.
C14_SchemaRangesDecide ==
    /\ \A id \in 1..Len(windows) :
        LET s == windows[id].advanced_settings
            inside == \A key \in RangedKeys :
                        s[key] = Absent \/ s[key].n \in AmendedRange(key)
        IN  /\ Refused(id) => ~inside
            /\ Posted(id) => inside
    /\ \A i \in 1..Len(posts) : \A key \in RangedKeys :
            posts[i].params[key] = Absent
                \/ posts[i].params[key].n \in AmendedRange(key)

\* a request with repetition_penalty = -1.0 was refused
C14_Witness ==
    /\ Len(windows) = 1
    /\ windows[1].advanced_settings["repetition_penalty"] = Float(-10)
    /\ Refused(1)
    /\ posts = <<>>

\* C15 as claimed: the sampling parameters of a posted payload are among the
\* keys that the settings mapping of the window supplied.
C15_PayloadKeysWereSupplied ==
    \A i \in 1..Len(posts) : \E id \in 1..Len(windows) :
        {key \in ParameterFields : posts[i].params[key] # Absent}
            \subseteq keys(windows[id].advanced_settings)


\* every store of the application is at its empty default
StoresEmpty ==
    /\ shortcuts = <<>>
    /\ llm_configs = <<>>
    /\ llm_profiles = <<>>
    /\ saved_items = <<>>
    /\ files = <<>>

\* C16: when load_data meets a file that is not JSON, the error is shown, the
\* application goes on running, and all five stores are empty afterwards.
C16_MalformedFileLeavesDefaults ==
    [][(phase = "init" /\ config_file.kind = "malformed" /\ phase' # phase)
        => /\ dialog' = "Config Error"
           /\ phase' = "running"
           /\ listener' = "running"
           /\ StoresEmpty']_vars

\* the application runs on its defaults after a damaged file that had held
\* shortcuts, a configuration, a profile, a saved item and a file entry
C16_Witness ==
    /\ phase = "running"
    /\ dialog = "Config Error"
    /\ config_file.kind = "malformed"
    /\ config_file.data.shortcuts # <<>>
    /\ config_file.data.llm_configs # <<>>
    /\ config_file.data.llm_profiles # <<>>
    /\ config_file.data.saved_items # <<>>
    /\ config_file.data.files # <<>>
    /\ StoresEmpty


C18_ListenerOnlyEnqueues ==
    [][AppKey =>
        /\ windows' = windows
        /\ open_query_windows' = open_query_windows
        /\ tk_calls' \subseteq {"after"}]_vars

\* C19: no operation of the GUI thread (add or delete a shortcut, add or
\* delete a configuration, the root.after callback, show or close a query
\* window, new conversation, send, save) writes the key buffer.
C19_GuiThreadLeavesBuffer ==
    [][GuiThread => buffer' = buffer]_vars

\* the GUI thread has started a new conversation, added a shortcut and saved
\* the configuration while the listener's buffer holds typed characters
C19_Witness ==
    /\ buffer = <<"_", "_">>
    /\ shortcuts # <<>>
    /\ config_file.data.shortcuts # <<>>
    /\ \E id \in 1..Len(windows) :
        /\ ~windows[id].destroyed
        /\ windows[id].chat_display =
                <<Line("system", "--- New conversation started ---", None)>>

\* C20 as claimed: after start_new_conversation the key buffer is empty.
C20_NewConversationResetsBuffer ==
    [][ChatNewConversation => buffer' = <<>>]_vars


\* the length of the longest trigger the user creates and of the longest
\* alias that names a configuration, written without leading zeros
LongestPattern ==
    LET lengths == {Len(p.trigger) : p \in ShortcutInputs}
            \cup {2 + Len(DecimalDigits(Cardinality(ConfigNameInputs \ {""})))}
    IN  CHOOSE n \in lengths : \A m \in lengths : m <= n

\* C21 as claimed: the buffer never holds more characters than the longest
\* trigger or alias pattern needs.
C21_BufferIsCapped == Len(buffer) <= LongestPattern


\* the name of the configuration that on_key_press asks a window for when
\* the buffer ends with the alias __N, "" when it asks for none
Resolved(N) ==
    LET buf == <<"_", "_">> \o DecimalDigits(N)
    IN  IF AliasPosition(buf) = 0 THEN ""
        ELSE Requested(AliasAction(buf))[1]

\* C22: an added configuration takes the last alias position and moves no
\* other; deleting the configuration at position k keeps the aliases below k
\* and makes each alias from k on resolve to the configuration that followed
\* it, the former last alias falling out of range; and row i of the
\* configuration list always names the configuration that __i resolves to.
C22_AliasesFollowPositions ==
    /\ [](/\ Len(llm_list) = Len(llm_configs)
          /\ \A i \in 1..Len(llm_list) : Resolved(i) = llm_list[i]
          /\ Resolved(Len(llm_configs) + 1) = "")
    /\ [][/\ Len(llm_configs') = Len(llm_configs) + 1
             => \A i \in 1..Len(llm_configs) : llm_configs'[i] = llm_configs[i]
          /\ Len(llm_configs') = Len(llm_configs) - 1
             => \E k \in 1..Len(llm_configs) :
                    /\ \A i \in 1..(k - 1) : llm_configs'[i] = llm_configs[i]
                    /\ \A i \in k..Len(llm_configs') :
                            llm_configs'[i] = llm_configs[i + 1]
          /\ Len(llm_configs') \in
                {Len(llm_configs) - 1, Len(llm_configs), Len(llm_configs) + 1}
          /\ Len(llm_configs') = Len(llm_configs) => llm_configs' = llm_configs]_vars

\* two configurations in the order c2, c1, the list showing them in that
\* order, and the alias __1 has just asked for a window of c2
C22_Witness ==
    /\ llm_list = <<"c2", "c1">>
    /\ Names(llm_configs) = {"c1", "c2"}
    /\ lastKey = KeyCode("1")
    /\ buffer = <<>>
    /\ Requested(out) = <<"c2">>


\* the last line of a transcript is an error line
EndsWithError(display) ==
    display # <<>> /\ display[Len(display)].tag = "error"

\* C23 as claimed: a request thread posts at most once, and when it ends the
\* request has exactly one outcome, a reply appended to the history or an
\* error line in the transcript with the history unchanged; nothing is posted
\* again and nothing raises out of the thread.
C23_OneOutcomePerRequest ==
    [][/\ Len(posts') <= Len(posts) + 1
       /\ \A t \in 1..Len(threads) : \A response \in Responses :
            LET id == threads[t].window
                outcome == posts'[threads[t].post].outcome
            IN  (threads[t].pc = "posted" /\ call_end(t, response))
                => /\ Len(posts') = Len(posts)
                   /\ outcome \in {"assistant", "error"}
                   /\ outcome = "assistant" =>
                        /\ windows'[id].history = Append(windows[id].history,
                                Message("assistant", Str(<<"r">>)))
                        /\ ~EndsWithError(windows'[id].chat_display)
                   /\ outcome = "error" =>
                        /\ windows'[id].history = windows[id].history
                        /\ windows'[id].chat_display # windows[id].chat_display
                        /\ EndsWithError(windows'[id].chat_display)]_vars


\* C24: the end of a request whose window was closed in the meantime changes
\* none of the application's stores and registers or creates no window, and
\* the application and its listener go on running.
C24_LateResponseIsDiscarded ==
    [][\A t \in 1..Len(threads) : \A response \in Responses :
            (/\ threads[t].pc = "posted"
             /\ windows[threads[t].window].destroyed
             /\ call_end(t, response))
            => /\ open_query_windows' = open_query_windows
               /\ saved_items' = saved_items
               /\ llm_configs' = llm_configs
               /\ llm_profiles' = llm_profiles
               /\ shortcuts' = shortcuts
               /\ files' = files
               /\ Len(windows') = Len(windows)
               /\ \A id \in 1..Len(windows) :
                    /\ windows'[id].destroyed = windows[id].destroyed
                    /\ id # threads[t].window => windows'[id] = windows[id]
               /\ phase' = phase
               /\ listener' = listener]_vars

\* the response to a posted request has been handled after the window of
\* the request was closed: no window is registered, the application runs
C24_Witness ==
    /\ \E i \in 1..Len(posts) : posts[i].outcome = "TclError"
    /\ threads = <<>>
    /\ open_query_windows = <<>>
    /\ \A id \in 1..Len(windows) : windows[id].destroyed
    /\ llm_configs # <<>>
    /\ llm_profiles # <<>>
    /\ listener = "running"

\* the windows of config_name that were created and not closed
OpenWindows(config_name) ==
    {id \in 1..Len(windows) :
        ~windows[id].destroyed /\ windows[id].config_name = config_name}

C26_RequestOpensWindow ==
    [][(after_queue # <<>> /\ AppRunAfter)
        => \E i \in 1..Len(open_query_windows') :
                /\ open_query_windows'[i].name = Head(after_queue)
                /\ ~windows'[open_query_windows'[i].window].destroyed]_vars

\* C27 as claimed: every assistant message in the history of a window
\* follows the user message it answers, so a history that was reset holds
\* no reply to a request sent before the reset.
C27_RepliesFollowTheirPrompt ==
    \A id \in 1..Len(windows) :
        LET history == windows[id].history
        IN  ~windows[id].destroyed
            => \A i \in 1..Len(history) :
                    history[i].role = "assistant"
                        => i > 1 /\ history[i - 1].role = "user"

\* C28: the schema has no field named model or messages, so the dumped
\* parameters replace neither key of the payload; the request thread of a
\* window that is not closed leaves the history and the settings of the
\* window as they were when it validates and posts, and it posts the
\* window's model and the history, with the system message in front of the
\* posted list only; and when the thread ends, the settings are as before
\* and the history is as before or, after a reply, longer by the one reply.
C28_RequestLeavesWindowAlone ==
    /\ [](ParameterFields \cap {"model", "messages"} = {})
    /\ [][\A t \in 1..Len(threads) :
            LET id == threads[t].window
                w == windows[id]
            IN  /\ (threads[t].pc = "start" /\ ~w.destroyed /\ call_begin(t))
                    => /\ windows'[id].history = w.history
                       /\ windows'[id].advanced_settings = w.advanced_settings
                       /\ Len(posts') > Len(posts)
                            => LET post == posts'[Len(posts')]
                                   sys == w.advanced_settings["system_message"]
                               IN  /\ post.model = w.config_details.model
                                   /\ post.messages =
                                        IF truthy(sys)
                                        THEN <<Message("system", sys)>> \o w.history
                                        ELSE w.history
                /\ \A response \in Responses :
                    (threads[t].pc = "posted" /\ ~w.destroyed
                        /\ call_end(t, response))
                    => /\ windows'[id].advanced_settings = w.advanced_settings
                       /\ windows'[id].history =
                            IF response = "ok"
                            THEN Append(w.history,
                                    Message("assistant", Str(<<"r">>)))
                            ELSE w.history]_vars

\* a request of a window whose profile has a system message was posted with
\* the system message in front and answered: the history holds the prompt
\* and the reply and no system message
C28_Witness ==
    \E id \in 1..Len(windows) : \E i \in 1..Len(posts) :
        /\ ~windows[id].destroyed
        /\ truthy(windows[id].advanced_settings["system_message"])
        /\ posts[i].outcome = "assistant"
        /\ posts[i].messages[1].role = "system"
        /\ Len(windows[id].history) = 2
        /\ windows[id].history[1].role = "user"
        /\ windows[id].history[2].role = "assistant"

\* C29 as claimed: every entry of the shortcut table has a non-empty trigger
\* and a non-empty output, also right after load_data.
C29_ShortcutsAreNonEmpty ==
    \A i \in 1..Len(shortcuts) :
        shortcuts[i].trigger # <<>> /\ shortcuts[i].output # <<>>

\* C30: what a call of the callback emits on a match is, in this order, the
\* backspace press and release pairs of the erase and then the action, the
\* whole output text key by key or the one window request, with no
\* backspace after the action has begun; and when the call returns, the
\* buffer is empty.  The callback handles one key from its first statement
\* to its return, so no other key reaches the matcher in between.
C30_EraseThenActThenReset ==
    out # <<>> =>
        /\ buffer = <<>>
        /\ \E n \in 1..(Len(out) \div 2) :
            LET rest == SubSeq(out, 2 * n + 1, Len(out))
            IN  /\ SubSeq(out, 1, 2 * n) = Erase(n)
                /\ rest # <<>>
                /\ \A i \in 1..Len(rest) : rest[i].arg # "backspace"
                /\ \/ Len(rest) = 1 /\ rest[1].kind = "after"
                   \/ rest = Type(TypedText(rest))

\* the shortcut __1 fired with no configuration present: three backspace
\* pairs, then the output y, and the buffer is empty
C30_Witness ==
    /\ lastKey = KeyCode("1")
    /\ out = Erase(3) \o Type(<<"y">>)
    /\ buffer = <<>>
    /\ llm_configs = <<>>

====
